---- MODULE Spec2Model ----
(* Verification model of the SOC dashboard repository: the report            *)
(* aggregation of ReportsTab (src/unnamed/part_002), the dashboard's row     *)
(* queries (src/src/components/SOCDashboard.tsx) and the chat round trip     *)
(* (src/src/components/AIAssistant.tsx, src/supabase/functions/ai-chat).     *)
(*                                                                           *)
(* Conventions.  A timestamp is the integer instant that                     *)
(* new Date(event.timestamp).getTime() denotes (the column is a NOT NULL     *)
(* timestamptz, so the Date is always valid).  JavaScript null / undefined   *)
(* of a string field is the string Null; an undefined Date is Undefined.     *)
EXTENDS Integers, Sequences, FiniteSets, TLC

VARIABLES
  logs, assets,          \* the event and asset lists ReportsTab is given
  dateRange, reportData, \* ReportsTab: the range state and the useMemo value
  store,                 \* the row store: logs and assets rows per client
  selectedClient, tab,   \* SOCDashboard: the open client and its open tab
  logsQuery, assetsQuery,\* SOCDashboard: the two per-client queries
  view,                  \* what the dashboard shows
  exportLog,             \* the last run of handleGeneratePDF
  openAIApiKey,          \* ai-chat: whether OPENAI_API_KEY is set
  messages, isLoading,   \* AIAssistant: the conversation and the loading flag
  toasts,                \* AIAssistant: error toasts raised so far
  chat,                  \* the chat request in flight
  exchanges,             \* one record per settled chat request
  clock,                 \* Date.now(), in ms
  messageIds,            \* AIAssistant: the id of each message of the conversation
  currentState,          \* AuthService: the state it publishes
  listeners,             \* AuthService: the listeners, in subscription order
  authPhase,             \* AuthService: how far initializeAuth has come
  changes,               \* auth changes the client library has reported
  delivered,             \* every call of a listener so far: who, with what
  hooks,                 \* useAuth: per component, its listener and its state
  mounts,                \* components mounted so far: the next listener's name
  apiKey, isValidating,  \* SettingsTab: the input, the validating flag
  validationError,       \* SettingsTab: the error under the input
  tabInstance,           \* SettingsTab: which mount of it is on screen
  submissions,           \* SettingsTab: the submissions waiting for their timer
  localStorage,          \* the item threatradar_api_key of the local storage
  apiKeyConfigured       \* SOCDashboard: the flag SettingsTab is given

aggVars == <<logs, assets, dateRange, reportData>>
dashVars == <<store, selectedClient, tab, logsQuery, assetsQuery, view, exportLog>>
chatVars == <<openAIApiKey, messages, isLoading, toasts, chat, exchanges, clock, messageIds>>
authVars == <<currentState, listeners, authPhase, changes, delivered, hooks, mounts>>
settingsVars == <<apiKey, isValidating, validationError, tabInstance, submissions,
                  localStorage, apiKeyConfigured>>
sessionVars == <<authVars, settingsVars>>
vars == <<aggVars, dashVars, chatVars, sessionVars>>

\* ------------------------------------------------------------------ bounds
MaxTime == 3
MaxFree == 1
MaxRun == 12
MaxVulns == 2
MaxSends == 2

\* ------------------------------------------------------- program constants
TopN == 10
SelectLimit == 10
ChatEventLimit == 20
RiskCap == 100
CriticalWeight == 10
HighWeight == 5
MediumWeight == 2
HighAlertThreshold == 5
\* pdfGenerator: the page, the cursor after a header, the three break
\* limits, the advances of the cursor and the rows a table takes
PageHeight == 297
TopOffset == 50
TitleLimit == 40
TextLimit == 20
TableLimit == 60
TitleLead == 10
TitleAdvance == 8
LineAdvance == 5
TableLead == 5
GapAdvance == 5
RowHeight == 8
PdfRows == 10
FooterOffset == 10
HeaderHeight == 40
\* ai-chat, rule-based version: the rows read and the recommendations kept
RuleEventLimit == 10
RuleAssetLimit == 5
RecommendationCap == 5
\* the turns of the conversation sent along and passed on
HistoryLimit == 10
\* the events and the assets listed in the security context
ContextItems == 5
\* systemUptime 99.8, in tenths of a percent
SystemUptimeTenths == 998

\* --------------------------------------------------------------- JS values
Null == "<null>"
Undefined == -1

Min(a, b) == IF a <= b THEN a ELSE b
Max(a, b) == IF a >= b THEN a ELSE b

\* variant of MathRound: Math.floor in its place
MathFloor(p, q) == p \div q

\* Math.round(p / q) for p >= 0, q > 0: halves round up.
MathRound(p, q) == (2 * p + q) \div (2 * q)

\* variant of slice: the cut left out
sliceAll(s, n) == s

\* Array.prototype.slice(0, n)
slice(s, n) == SubSeq(s, 1, Min(n, Len(s)))

\* Array.prototype.filter(...).length
Count(s, P(_)) == Len(SelectSeq(s, P))

\* variant of InsertDesc: the comparator written key(a) - key(b)
RECURSIVE InsertAsc(_, _)
InsertAsc(x, s) ==
  IF s = <<>> THEN <<x>>
  ELSE IF Head(s)[1] <= x[1] THEN <<Head(s)>> \o InsertAsc(x, Tail(s))
  ELSE <<x>> \o s

\* Array.prototype.sort with comparator (a, b) => key(b) - key(a), on a list of
\* <<key, item>> pairs: a stable sort into descending key order (an item is
\* placed after every earlier item whose key is not smaller).
RECURSIVE InsertDesc(_, _)
InsertDesc(x, s) ==
  IF s = <<>> THEN <<x>>
  ELSE IF Head(s)[1] >= x[1] THEN <<Head(s)>> \o InsertDesc(x, Tail(s))
  ELSE <<x>> \o s

RECURSIVE SortPairsDesc(_)
SortPairsDesc(s) ==
  IF s = <<>> THEN <<>>
  ELSE InsertDesc(s[Len(s)], SortPairsDesc(SubSeq(s, 1, Len(s) - 1)))

SortDesc(s, key(_)) ==
  LET sorted == SortPairsDesc([i \in 1..Len(s) |-> <<key(s[i]), s[i]>>])
  IN  [i \in 1..Len(s) |-> sorted[i][2]]

\* ------------------------------------------------------ ReportsTab.reportData
eventDate(e) == e.timestamp

\* variant of InWindow: the to endpoint excluded
InWindowHalfOpen(e, r) == eventDate(e) >= r.from /\ eventDate(e) < r.to

InWindow(e, r) == eventDate(e) >= r.from /\ eventDate(e) <= r.to

filteredEvents(ls, r) == SelectSeq(ls, LAMBDA e : InWindow(e, r))

threatOverview(fe) ==
  [critical |-> Count(fe, LAMBDA e : e.severity = "critical"),
   high     |-> Count(fe, LAMBDA e : e.severity = "high"),
   medium   |-> Count(fe, LAMBDA e : e.severity = "medium"),
   low      |-> Count(fe, LAMBDA e : e.severity = "low"),
   info     |-> Count(fe, LAMBDA e : e.severity = "info")]

totalAlerts(t) == t.critical + t.high + t.medium + t.low + t.info

\* variant of riskScore: the Math.min left out
riskScoreUnclamped(t) ==
  MathRound((t.critical * CriticalWeight + t.high * HighWeight
             + t.medium * MediumWeight) * 100,
            Max(1, totalAlerts(t)))

riskScore(t) ==
  Min(RiskCap,
      MathRound((t.critical * CriticalWeight + t.high * HighWeight
                 + t.medium * MediumWeight) * 100,
                Max(1, totalAlerts(t))))

\* Array.isArray(asset.vulnerabilities): the JSONB column holds an array, or
\* null / another JSON value
IsArray(v) == v.isArray

vulnerableAssets(as) ==
  SelectSeq(as, LAMBDA a : IsArray(a.vulnerabilities) /\ Len(a.vulnerabilities.items) > 0)

topEventEntry(e) ==
  [id |-> e.event_id,
   severity |-> IF e.severity = Null THEN "unknown" ELSE e.severity,
   timestamp |-> e.timestamp]

topEvents(fe) ==
  LET picked == SelectSeq(fe, LAMBDA e : e.severity = "critical" \/ e.severity = "high")
      sorted == SortDesc(picked, LAMBDA e : eventDate(e))
      top    == slice(sorted, TopN)
  IN  [i \in 1..Len(top) |-> topEventEntry(top[i])]

vulnerabilityEntry(a) ==
  [assetName |-> a.name,
   vulnerabilityCount |-> IF IsArray(a.vulnerabilities) THEN Len(a.vulnerabilities.items) ELSE 0,
   criticalVulns |-> IF IsArray(a.vulnerabilities)
                     THEN Count(a.vulnerabilities.items, LAMBDA v : v.severity = "critical")
                     ELSE 0]

vulnerabilitySummary(as) ==
  LET va == vulnerableAssets(as)
      mapped == [i \in 1..Len(va) |-> vulnerabilityEntry(va[i])]
  IN  slice(SortDesc(mapped, LAMBDA x : x.criticalVulns), TopN)

GeneralAdvice ==
  <<"Regular security awareness training for all users",
    "Implement multi-factor authentication across all systems",
    "Conduct regular penetration testing",
    "Update incident response procedures">>

\* variant of recommendations: the monitoring string from 5 high alerts on
recommendationsFromFive(t, as) ==
  (IF t.critical > 0
     THEN <<"Immediate attention required for critical security alerts">> ELSE <<>>)
  \o (IF Len(vulnerableAssets(as)) > 0
     THEN <<"Schedule vulnerability patching for affected assets">> ELSE <<>>)
  \o (IF Count(as, LAMBDA a : a.status = "offline") > 0
     THEN <<"Investigate and restore offline assets">> ELSE <<>>)
  \o (IF t.high >= HighAlertThreshold
     THEN <<"Review and enhance security monitoring rules">> ELSE <<>>)
  \o GeneralAdvice

recommendations(t, as) ==
  (IF t.critical > 0
     THEN <<"Immediate attention required for critical security alerts">> ELSE <<>>)
  \o (IF Len(vulnerableAssets(as)) > 0
     THEN <<"Schedule vulnerability patching for affected assets">> ELSE <<>>)
  \o (IF Count(as, LAMBDA a : a.status = "offline") > 0
     THEN <<"Investigate and restore offline assets">> ELSE <<>>)
  \o (IF t.high > HighAlertThreshold
     THEN <<"Review and enhance security monitoring rules">> ELSE <<>>)
  \o GeneralAdvice

NullReport == [null |-> TRUE]

\* variant of windowMissing: only the from endpoint tested
windowMissingFromOnly(r) == r.from = Undefined

\* !dateRange?.from || !dateRange?.to (a Date object is always truthy)
windowMissing(r) == r.from = Undefined \/ r.to = Undefined

\* the useMemo body: null without a complete window, else the report
\* Math.random() as the thousandths it returns, and the placeholder response
\* time Math.round(Math.random() * 300 + 60) computed from it
RandomDraws == {0, 999}

avgResponseTime(rnd) == MathRound(rnd * 300 + 60 * 1000, 1000)

\* variant of complianceMetrics: the uptime drawn as well
complianceMetricsDrawnUptime(fe, rnd) ==
  [eventsProcessed |-> Len(fe),
   avgResponseTime |-> avgResponseTime(rnd),
   systemUptime |-> SystemUptimeTenths - (rnd % 10)]

complianceMetrics(fe, rnd) ==
  [eventsProcessed |-> Len(fe),
   avgResponseTime |-> avgResponseTime(rnd),
   systemUptime |-> SystemUptimeTenths]

\* the useMemo body; rnd is what Math.random() returns in it
aggregate(ls, as, r, rnd) ==
  IF windowMissing(r) THEN NullReport
  ELSE
    LET fe == filteredEvents(ls, r)
        t  == threatOverview(fe)
    IN  [executiveSummary |->
           [totalEvents |-> totalAlerts(t),
            criticalAlerts |-> t.critical,
            highAlerts |-> t.high,
            assetsMonitored |-> Len(as),
            riskScore |-> riskScore(t)],
         threatOverview |-> t,
         assetStatus |->
           [total |-> Len(as),
            online |-> Count(as, LAMBDA a : a.status = "online"),
            offline |-> Count(as, LAMBDA a : a.status = "offline"),
            vulnerable |-> Len(vulnerableAssets(as))],
         topEvents |-> topEvents(fe),
         vulnerabilitySummary |-> vulnerabilitySummary(as),
         recommendations |-> recommendations(t, as),
         complianceMetrics |-> complianceMetrics(fe, rnd)]

\* variant of logsAfterAggregate: the sort of topEvents run on logs itself
logsSortedInPlace(ls, r) == SortDesc(ls, LAMBDA e : eventDate(e))

\* the event list the useMemo body leaves behind: logs.filter returns a new
\* array, and the one sort over events runs on the array a second filter
\* returns
logsAfterAggregate(ls, r) == ls

\* variant of assetsAfterAggregate: the sort of vulnerabilitySummary run on
\* assets itself
assetsSortedInPlace(as) ==
  SortDesc(as, LAMBDA a : IF IsArray(a.vulnerabilities)
                          THEN Count(a.vulnerabilities.items, LAMBDA v : v.severity = "critical")
                          ELSE 0)

\* the asset list the useMemo body leaves behind: every assets.filter returns
\* a new array, and the one sort over assets runs on the array map returns
assetsAfterAggregate(as) == as

\* ------------------------------------------------------------ pdfGenerator
\* lengths are millimetres; the a4 page is 297 high, and every cursor value
\* is a whole number, so the comparisons are those of the code

\* the body of generatePDFReport as the calls it makes, in order: a section
\* title, one line of text (splitTextToSize gives one line for each of the
\* texts written here), the yPosition += 5 gap, the start of a table and one
\* row of it
Title(t) == [cmd |-> "title", text |-> t]
Line(t) == [cmd |-> "line", text |-> t]
Gap == [cmd |-> "gap"]
TableStart(t) == [cmd |-> "table", text |-> t]
Row(t, i) == [cmd |-> "row", text |-> t, index |-> i]

Lines(texts) == [i \in 1..Len(texts) |-> Line(texts[i])]
Rows(t, n) == [i \in 1..n |-> Row(t, i)]

bodyCommands(rd) ==
  <<Title("Executive Summary")>>
  \o Lines(<<"Risk Score", "Overall security posture">>)
  \o <<Gap>>
  \o Lines(<<"Total Security Events", "Critical Alerts", "High Priority Alerts",
             "Assets Under Monitoring">>)
  \o <<Title("Threat Overview"), TableStart("threat")>>
  \o Rows("threat", Cardinality(DOMAIN rd.threatOverview))
  \o <<Title("Asset Status Summary")>>
  \o Lines(<<"Total Assets", "Online Assets", "Offline Assets", "Vulnerable Assets">>)
  \o (IF Len(rd.topEvents) > 0
      THEN <<Title("Top Security Events"), TableStart("events")>>
           \o Rows("events", Len(slice(rd.topEvents, PdfRows)))
      ELSE <<>>)
  \o (IF Len(rd.vulnerabilitySummary) > 0
      THEN <<Title("Vulnerable Assets Summary"), TableStart("vulnerabilities")>>
           \o Rows("vulnerabilities", Len(slice(rd.vulnerabilitySummary, PdfRows)))
      ELSE <<>>)
  \o <<Title("Security Recommendations")>>
  \o Lines(rd.recommendations)
  \o <<Title("Compliance & Performance Metrics")>>
  \o Lines(<<"Events Processed", "Average Response Time", "System Uptime">>)

\* pdf.addPage(); addHeader(); yPosition = 50
addHeader(st) ==
  [op |-> "header", page |-> st.page, period |-> st.period]

newPage(st) ==
  LET turned == [st EXCEPT !.page = @ + 1]
  IN  [turned EXCEPT !.yPosition = TopOffset,
                     !.log = @ \o <<[op |-> "addPage", page |-> turned.page],
                                    addHeader(turned)>>]

\* one drawing call at the cursor, which then advances
draw(st, c, cursor, advance) ==
  [st EXCEPT !.yPosition = @ + advance,
             !.log = Append(@, [op |-> c.cmd, text |-> c.text, cursor |-> cursor,
                                y |-> st.yPosition, page |-> st.page])]

\* the page break every helper makes before it draws: cursor beyond
\* pageHeight - limit
breakIfBeyond(st, limit) ==
  IF st.yPosition > PageHeight - limit THEN newPage(st) ELSE st

advanced(st, d) == [st EXCEPT !.yPosition = @ + d]

\* variant of addSectionTitle: the page break looked for before the lead
addSectionTitleCheckFirst(st, c) ==
  LET checked == breakIfBeyond(st, TitleLimit)
  IN  draw(advanced(checked, TitleLead), c, st.yPosition, TitleAdvance)

addSectionTitle(st, c) ==
  LET led == advanced(st, TitleLead)
  IN  draw(breakIfBeyond(led, TitleLimit), c, led.yPosition, TitleAdvance)

\* addText, for one line of its forEach
addText(st, c) ==
  draw(breakIfBeyond(st, TextLimit), c, st.yPosition, LineAdvance)

\* addTable up to the data rows
addTable(st, c) ==
  LET led == advanced(st, TableLead)
  IN  draw(breakIfBeyond(led, TableLimit), c, led.yPosition, RowHeight)

\* variant of addTableRow: no check in the forEach over the rows
addTableRowUnchecked(st, c) ==
  draw(st, c, st.yPosition, RowHeight)

\* addTable, for one row of its forEach over the data rows
addTableRow(st, c) ==
  draw(breakIfBeyond(st, TextLimit), c, st.yPosition, RowHeight)

\* one call of the body on the document so far
step(st, c) ==
  CASE c.cmd = "title" -> addSectionTitle(st, c)
    [] c.cmd = "line" -> addText(st, c)
    [] c.cmd = "gap" -> advanced(st, GapAdvance)
    [] c.cmd = "table" -> addTable(st, c)
    [] c.cmd = "row" -> addTableRow(st, c)

\* the calls from the i-th on, in order
RECURSIVE run(_, _, _)
run(cmds, i, st) ==
  IF i > Len(cmds) \/ st.page < 1 THEN st
  ELSE run(cmds, i + 1, step(st, cmds[i]))

\* for (i = 1; i <= totalPages; i++) { pdf.setPage(i); addFooter() }
addFooters(totalPages) == [i \in 1..totalPages |-> [op |-> "footer", page |-> i]]

\* variant of generatePDFReport: the footer on the last page only
generatePDFReportLastFooter(rd, r) ==
  LET first == [yPosition |-> TopOffset, page |-> 1, period |-> ~windowMissing(r),
                log |-> <<>>]
      body == run(bodyCommands(rd), 1, [first EXCEPT !.log = <<addHeader(first)>>])
  IN  body.log \o <<[op |-> "footer", page |-> body.page]>> \o <<[op |-> "save"]>>

\* variant of generatePDFReport: pdf.save before the footer loop
generatePDFReportSaveFirst(rd, r) ==
  LET first == [yPosition |-> TopOffset, page |-> 1, period |-> ~windowMissing(r),
                log |-> <<>>]
      body == run(bodyCommands(rd), 1, [first EXCEPT !.log = <<addHeader(first)>>])
  IN  body.log \o <<[op |-> "save"]>> \o addFooters(body.page)

\* generatePDFReport: the document as the calls made on it, in order
generatePDFReport(rd, r) ==
  LET first == [yPosition |-> TopOffset, page |-> 1, period |-> ~windowMissing(r),
                log |-> <<>>]
      body == run(bodyCommands(rd), 1, [first EXCEPT !.log = <<addHeader(first)>>])
  IN  body.log \o addFooters(body.page) \o <<[op |-> "save"]>>

\* variant of reportAfterPDF: the tables cut with splice, which empties the
\* lists of the report
reportSpliced(rd) ==
  [rd EXCEPT !.topEvents = <<>>, !.vulnerabilitySummary = <<>>]

\* the report generatePDFReport leaves behind: it reads the report through
\* Object.entries, slice, map and forEach, none of which writes to it
reportAfterPDF(rd) == rd

NoDocument == <<>>

\* what one run of handleGeneratePDF does: nothing without a report, else the
\* serializer runs to pdf.save
exportOf(rd, r) ==
  [ran |-> TRUE,
   windowMissing |-> windowMissing(r),
   serializerCalled |-> rd # NullReport,
   document |-> IF rd # NullReport THEN generatePDFReport(rd, r) ELSE NoDocument]

\* ------------------------------------------------------------ input domains
Times == 0..MaxTime

Severities == {"critical", "high", "medium", "low", "info", "unspecified", Null}

Statuses == {"online", "offline", "maintenance"}

\* rows as the store returns them: event_id / name are unique, here the
\* position in the list
MkEvents(s) ==
  [i \in 1..Len(s) |-> [event_id |-> i, timestamp |-> s[i][1], severity |-> s[i][2]]]

SeverityCycles ==
  {<<"high">>, <<"high", "critical">>, <<"critical", "high", "low">>,
   <<"medium", "low", "info">>,
   <<"high", "medium", "critical", Null, "high", "unspecified", "info">>}

\* n events, the i-th at time (t0 + i * stride) mod (MaxTime + 1) with the
\* severities taken round-robin from cyc
RunEvents(n, t0, stride, cyc) ==
  MkEvents([i \in 1..n |->
             <<(t0 + i * stride) % (MaxTime + 1), cyc[((i - 1) % Len(cyc)) + 1]>>])

\* a vulnerabilities value: not an array, or c critical records followed by
\* n - c high ones
Vulns(n, c) ==
  [isArray |-> TRUE,
   items |-> [i \in 1..n |-> [severity |-> IF i <= c THEN "critical" ELSE "high"]]]

NotAnArray == [isArray |-> FALSE, items |-> <<>>]

VulnValues ==
  {NotAnArray} \cup UNION {{Vulns(n, c) : c \in 0..n} : n \in 0..MaxVulns}

MkAssets(s) ==
  [i \in 1..Len(s) |-> [name |-> i, status |-> s[i][1], vulnerabilities |-> s[i][2]]]

StatusCycle == <<"online", "offline", "maintenance", "online">>

\* n assets, the i-th with (c0 + i * stride) mod (MaxVulns + 1) critical
\* vulnerabilities out of MaxVulns, every gap-th one without any
RunAssetList(n, c0, stride, gap) ==
  MkAssets([i \in 1..n |->
             <<StatusCycle[((i - 1) % Len(StatusCycle)) + 1],
               IF gap > 0 /\ i % gap = 0 THEN Vulns(0, 0)
               ELSE Vulns(MaxVulns, (c0 + i * stride) % (MaxVulns + 1))>>])

\* a DateRange: both endpoints, only from (a range being picked), or neither
Ranges ==
  {r \in [from : Times \cup {Undefined}, to : Times \cup {Undefined}] :
     (r.from # Undefined /\ r.to # Undefined) => r.from <= r.to}

\* the ranges with both endpoints
Windows == {r \in Ranges : r.from # Undefined /\ r.to # Undefined}

FullRange == [from |-> 0, to |-> MaxTime]

FewLogs == {<<>>, RunEvents(11, 0, 1, <<"high">>), RunEvents(3, 1, 0, <<"critical", "low">>)}

FewAssets ==
  {<<>>, MkAssets(<<<<"offline", Vulns(1, 1)>>>>),
   MkAssets(<<<<"online", Vulns(0, 0)>>, <<"maintenance", NotAnArray>>>>)}

\* ------------------------------------------------------------ specification
Pending == [pending |-> TRUE]

\* the dashboard with no client open
NoClient == "<none>"
IdleQuery == [status |-> "idle", data |-> <<>>]
NoExport == [ran |-> FALSE]

DashIdle ==
  /\ selectedClient = NoClient
  /\ tab = "monitor"
  /\ logsQuery = IdleQuery
  /\ assetsQuery = IdleQuery
  /\ view = "clients"
  /\ exportLog = NoExport

EmptyStore == [logs |-> <<>>, assets |-> <<>>]

\* the assistant as it is constructed: the greeting, nothing in flight
Greeting == [sender |-> "ai", content |-> [text |-> "greeting"]]
NoRequest == [phase |-> "idle"]

\* the instant the assistant is constructed at
StartTime == 1000

ChatIdle ==
  /\ messages = <<Greeting>>
  /\ messageIds = <<1>>
  /\ clock = StartTime
  /\ isLoading = FALSE
  /\ toasts = 0
  /\ chat = NoRequest
  /\ exchanges = <<>>

\* the key SettingsTab accepts, shortened, and the texts it shows under the
\* input
ExpectedKey == <<"s", "b", "_", "k">>
NoError == "<no error>"
EnterKey == "Please enter an API key"
InvalidKey == "Invalid API key. Please check your credentials and try again."

\* a value that may be absent: the stored item, the text of an alert
Absent == [present |-> FALSE, text |-> <<>>]
Present(str) == [present |-> TRUE, text |-> str]

\* the components that render on the state useAuth gives them
Components == {"route", "login"}

NoUser == [present |-> FALSE]
NoSession == [present |-> FALSE]
\* AuthService as it is constructed: loading, nobody listening
AuthStart ==
  /\ currentState = [user |-> NoUser, session |-> NoSession, loading |-> TRUE]
  /\ listeners = <<>>
  /\ authPhase = "starting"
  /\ changes = 0
  /\ delivered = <<>>
  /\ hooks = [c \in Components |-> [stage |-> "unused"]]
  /\ mounts = 0

\* SettingsTab as it is constructed
SettingsFresh ==
  /\ apiKey = <<>>
  /\ isValidating = FALSE
  /\ validationError = NoError
  /\ tabInstance = 1
  /\ submissions = {}

\* a session in which the expected key was stored before
SessionIdle ==
  /\ AuthStart
  /\ SettingsFresh
  /\ localStorage = Present(ExpectedKey)
  /\ apiKeyConfigured = TRUE

Init ==
  /\ logs = <<>>
  /\ assets = <<>>
  /\ dateRange = FullRange
  /\ reportData = Pending
  /\ store = EmptyStore
  /\ DashIdle
  /\ openAIApiKey = FALSE
  /\ ChatIdle
  /\ SessionIdle

\* ReportsTab is mounted with its props and a range, and renders: the useMemo
\* body runs on them.  The inputs are every short event list with every
\* window, the long event lists, starting at the first or the last instant,
\* with a few asset lists and every range, and
\* every asset list with a few event lists.
Render ==
  /\ reportData = Pending
  /\ \/ /\ \E n \in 0..MaxFree : \E s \in [1..n -> Times \X Severities] :
             logs' = MkEvents(s)
        /\ assets' = <<>>
        /\ dateRange' \in Windows
     \/ /\ \E n \in 3..MaxRun, t0 \in {0, MaxTime}, stride \in 0..1, cyc \in SeverityCycles :
             logs' = RunEvents(n, t0, stride, cyc)
        /\ assets' \in FewAssets
        /\ dateRange' \in Ranges
     \/ /\ logs' \in FewLogs
        /\ \/ \E n \in 0..MaxFree : \E s \in [1..n -> Statuses \X VulnValues] :
                assets' = MkAssets(s)
           \/ \E n \in 3..MaxRun, c0 \in 0..MaxVulns, stride \in 0..1, gap \in {0, 4, 7} :
                assets' = RunAssetList(n, c0, stride, gap)
        /\ dateRange' = FullRange
  /\ \E rnd \in RandomDraws : reportData' = aggregate(logs', assets', dateRange', rnd)
  /\ UNCHANGED <<dashVars, chatVars, sessionVars>>

\* ReportsTab renders again with props of the same contents in new arrays (a
\* parent render whose query has no data passes a new [] each time): the
\* dependencies differ by reference and the useMemo body runs again
Recompute ==
  /\ reportData # Pending
  /\ logs' = logsAfterAggregate(logs, dateRange)
  /\ assets' = assetsAfterAggregate(assets)
  /\ \E rnd \in RandomDraws : reportData' = aggregate(logs, assets, dateRange, rnd)
  /\ UNCHANGED <<dateRange, dashVars, chatVars, sessionVars>>

\* handleGeneratePDF on the rendered tab
GeneratePDF ==
  /\ reportData # Pending
  /\ exportLog = NoExport
  /\ exportLog' = exportOf(reportData, dateRange)
  /\ reportData' = IF reportData = NullReport THEN reportData
                    ELSE reportAfterPDF(reportData)
  /\ UNCHANGED <<logs, assets, dateRange, store, selectedClient, tab, logsQuery,
                 assetsQuery, view, chatVars, sessionVars>>

Next == Render \/ Recompute \/ GeneratePDF

Spec == Init /\ [][Next]_vars

\* ------------------------------------------------------------- SOCDashboard
Clients == {"c1", "c2"}

\* the range a freshly mounted ReportsTab starts with: 30 days back to now,
\* "now" being the last instant and 30 days ago the instant 1
DefaultRange == [from |-> 1, to |-> MaxTime]

\* store contents: rows per client, the logs at distinct instants
SevenSeverities == <<"critical", "low", "high", "info", "medium", Null, "high">>

\* a store with more rows than the queries return: c1 has 12 events, the two
\* oldest critical and older than the ten others, and c2 has 22 events at
\* distinct instants, listed out of order, and 7 assets, the sixth the only
\* one offline and the only one with vulnerabilities
LongStore ==
  [logs |-> [c \in Clients |->
               IF c = "c1"
               THEN MkEvents(<<<<1, "low">>, <<3, "high">>, <<0, "critical">>,
                               <<2, "medium">>, <<3, "critical">>, <<1, "high">>,
                               <<2, "low">>, <<3, "info">>, <<0, "critical">>,
                               <<2, "high">>, <<3, "medium">>, <<1, Null>>>>)
               ELSE MkEvents([i \in 1..22 |->
                                <<(i * 7) % 23, SevenSeverities[(i % 7) + 1]>>])],
   assets |-> [c \in Clients |->
               IF c = "c1"
               THEN MkAssets(<<<<"online", Vulns(1, 0)>>>>)
               ELSE MkAssets(<<<<"online", Vulns(0, 0)>>, <<"maintenance", NotAnArray>>,
                               <<"online", Vulns(0, 0)>>, <<"online", NotAnArray>>,
                               <<"maintenance", Vulns(0, 0)>>, <<"offline", Vulns(2, 1)>>,
                               <<"online", Vulns(0, 0)>>>>)]]

Stores ==
  {[logs |-> [c \in Clients |->
                IF c = "c1"
                THEN MkEvents(<<<<2, "high">>, <<0, "critical">>, <<3, Null>>, <<1, "low">>>>)
                ELSE <<>>],
    assets |-> [c \in Clients |->
                IF c = "c1"
                THEN MkAssets(<<<<"offline", Vulns(2, 1)>>, <<"online", NotAnArray>>>>)
                ELSE <<>>]],
   [logs |-> [c \in Clients |-> MkEvents(<<<<MaxTime, "medium">>>>)],
    assets |-> [c \in Clients |->
                IF c = "c1" THEN <<>>
                ELSE MkAssets(<<<<"maintenance", Vulns(0, 0)>>>>)]],
   LongStore}

\* variant of selectLogs: the query without its limit
selectLogsUnlimited(c) == SortDesc(store.logs[c], LAMBDA e : e.timestamp)

\* from('logs').select('*').eq('client_id', c).order('timestamp',
\* {ascending: false}).limit(10)
selectLogs(c) == slice(SortDesc(store.logs[c], LAMBDA e : e.timestamp), SelectLimit)

\* from('assets').select('*').eq('client_id', c).order('created_at', ...):
\* the rows in the order the store lists them
selectAssets(c) == store.assets[c]

\* const { data: logs = [] } = useQuery(...): the rows of a settled query,
\* the default [] while data is undefined
queryData(q) == IF q.status = "success" THEN q.data ELSE <<>>

\* ReportsTab lives in the content of the reports tab of an open client
Mounted == selectedClient # NoClient /\ tab = "reports"

\* useMemo keeps its value when [logs, assets, dateRange] are the same
\* references as in the last render of the mounted tab: the same query results
\* (the default [] of a query without data is a new array on every render)
\* and the same range
MemoHit ==
  /\ Mounted
  /\ logsQuery.status = "success" /\ logsQuery' = logsQuery
  /\ assetsQuery.status = "success" /\ assetsQuery' = assetsQuery
  /\ dateRange' = dateRange

\* one render pass of SOCDashboard and, when mounted, ReportsTab, on the
\* primed state
Rerender ==
  /\ logs' = queryData(logsQuery')
  /\ assets' = queryData(assetsQuery')
  /\ IF ~Mounted' THEN reportData' = Pending
     ELSE IF MemoHit THEN reportData' = reportData
     ELSE \E rnd \in RandomDraws :
            reportData' = aggregate(logs', assets', dateRange', rnd)
  /\ view' = IF selectedClient' = NoClient THEN "clients"
             ELSE IF tab' # "reports" THEN "monitor"
             ELSE IF reportData' # NullReport THEN "report-tabs"
             ELSE "report-placeholder"

DashInit ==
  /\ logs = <<>>
  /\ assets = <<>>
  /\ dateRange = DefaultRange
  /\ reportData = Pending
  /\ store \in Stores
  /\ DashIdle
  /\ openAIApiKey = FALSE
  /\ ChatIdle
  /\ SessionIdle

\* onClick={() => setSelectedClient(client.id)}: both queries start
SelectClient(c) ==
  /\ selectedClient = NoClient
  /\ selectedClient' = c
  /\ tab' = "monitor"
  /\ logsQuery' = [status |-> "pending", data |-> <<>>]
  /\ assetsQuery' = [status |-> "pending", data |-> <<>>]
  /\ UNCHANGED <<store, dateRange, exportLog>>
  /\ UNCHANGED <<chatVars, sessionVars>>
  /\ Rerender

\* onClick={() => setSelectedClient(null)}
BackToClients ==
  /\ selectedClient # NoClient
  /\ selectedClient' = NoClient
  /\ tab' = "monitor"
  /\ logsQuery' = IdleQuery
  /\ assetsQuery' = IdleQuery
  /\ dateRange' = DefaultRange
  /\ UNCHANGED <<store, exportLog>>
  /\ UNCHANGED <<chatVars, sessionVars>>
  /\ Rerender

\* the reports tab is opened (ReportsTab mounts with its initial state) or
\* left (it unmounts)
SwitchTab ==
  /\ selectedClient # NoClient
  /\ tab' = IF tab = "reports" THEN "monitor" ELSE "reports"
  /\ dateRange' = DefaultRange
  /\ UNCHANGED <<store, selectedClient, logsQuery, assetsQuery, exportLog>>
  /\ UNCHANGED <<chatVars, sessionVars>>
  /\ Rerender

\* the logs queryFn resolves with the rows
LogsQuerySucceeds ==
  /\ logsQuery.status = "pending"
  /\ logsQuery' = [status |-> "success", data |-> selectLogs(selectedClient)]
  /\ UNCHANGED <<store, selectedClient, tab, assetsQuery, dateRange, exportLog>>
  /\ UNCHANGED <<chatVars, sessionVars>>
  /\ Rerender

\* the logs queryFn throws the store's error
LogsQueryFails ==
  /\ logsQuery.status = "pending"
  /\ logsQuery' = [status |-> "error", data |-> <<>>]
  /\ UNCHANGED <<store, selectedClient, tab, assetsQuery, dateRange, exportLog>>
  /\ UNCHANGED <<chatVars, sessionVars>>
  /\ Rerender

AssetsQuerySucceeds ==
  /\ assetsQuery.status = "pending"
  /\ assetsQuery' = [status |-> "success", data |-> selectAssets(selectedClient)]
  /\ UNCHANGED <<store, selectedClient, tab, logsQuery, dateRange, exportLog>>
  /\ UNCHANGED <<chatVars, sessionVars>>
  /\ Rerender

AssetsQueryFails ==
  /\ assetsQuery.status = "pending"
  /\ assetsQuery' = [status |-> "error", data |-> <<>>]
  /\ UNCHANGED <<store, selectedClient, tab, logsQuery, dateRange, exportLog>>
  /\ UNCHANGED <<chatVars, sessionVars>>
  /\ Rerender

\* the calendar's onSelect or a quick-range button
SetDateRange(r) ==
  /\ Mounted
  /\ dateRange' = r
  /\ UNCHANGED <<store, selectedClient, tab, logsQuery, assetsQuery, exportLog>>
  /\ UNCHANGED <<chatVars, sessionVars>>
  /\ Rerender

\* handleGeneratePDF, run as the function it is (the button that calls it is
\* disabled while reportData is null): it returns at once without a report,
\* else generatePDFReport runs to its end before the handler's continuation
HandleGeneratePDF ==
  /\ Mounted
  /\ exportLog' = exportOf(reportData, dateRange)
  /\ UNCHANGED <<store, selectedClient, tab, logsQuery, assetsQuery, dateRange>>
  /\ UNCHANGED <<chatVars, sessionVars>>
  /\ Rerender

DashNext ==
  \/ \E c \in Clients : SelectClient(c)
  \/ BackToClients
  \/ SwitchTab
  \/ LogsQuerySucceeds
  \/ LogsQueryFails
  \/ AssetsQuerySucceeds
  \/ AssetsQueryFails
  \/ \E r \in Ranges : SetDateRange(r)
  \/ HandleGeneratePDF

SpecDash == DashInit /\ [][DashNext]_vars

\* ------------------------------------------------- AIAssistant and ai-chat
\* a text is its sequence of characters
Upper == <<"A", "B", "C", "D", "E", "F", "G", "H", "I", "J", "K", "L", "M",
           "N", "O", "P", "Q", "R", "S", "T", "U", "V", "W", "X", "Y", "Z">>
Lower == <<"a", "b", "c", "d", "e", "f", "g", "h", "i", "j", "k", "l", "m",
           "n", "o", "p", "q", "r", "s", "t", "u", "v", "w", "x", "y", "z">>

\* String.prototype.toLowerCase
toLowerCase(str) ==
  [i \in 1..Len(str) |->
     IF \E k \in 1..26 : Upper[k] = str[i]
     THEN Lower[CHOOSE k \in 1..26 : Upper[k] = str[i]]
     ELSE str[i]]

\* String.prototype.includes
includes(str, sub) ==
  \E i \in 0..(Len(str) - Len(sub)) : SubSeq(str, i + 1, i + Len(sub)) = sub

\* String.prototype.trim, for texts whose only white space is the blank
RECURSIVE trimStart(_)
trimStart(str) ==
  IF str # <<>> /\ Head(str) = " " THEN trimStart(Tail(str)) ELSE str

RECURSIVE trimEnd(_)
trimEnd(str) ==
  IF str # <<>> /\ str[Len(str)] = " " THEN trimEnd(SubSeq(str, 1, Len(str) - 1))
  ELSE str

trim(str) == trimEnd(trimStart(str))

UserMessages ==
  {<<"A", "L", "E", "R", "T", "S", " ", "n", "o", "w">>,
   <<"m", "y", " ", "a", "s", "s", "e", "t", "s">>,
   <<"h", "e", "l", "l", "o">>,
   <<"I", "n", "c", "i", "d", "e", "n", "t", " ", "l", "o", "g">>,
   <<" ", " ">>}

\* generateFallbackResponse: the first keyword group that matches decides
generateFallbackResponse(message, events, as) ==
  LET lowerMessage == toLowerCase(message)
  IN  IF includes(lowerMessage, <<"e", "v", "e", "n", "t">>) \/ includes(lowerMessage, <<"a", "l", "e", "r", "t">>)
      THEN [text |-> "fallback-events",
            total |-> Len(events),
            attention |-> Count(events, LAMBDA e : e.severity = "critical"
                                                   \/ e.severity = "high")]
      ELSE IF includes(lowerMessage, <<"a", "s", "s", "e", "t">>)
              \/ includes(lowerMessage, <<"v", "u", "l", "n", "e", "r", "a", "b", "i", "l", "i", "t", "y">>)
      THEN [text |-> "fallback-assets",
            total |-> Len(as),
            vulnerable |-> Count(as, LAMBDA a : a.vulnerabilities.isArray
                                                /\ Len(a.vulnerabilities.items) > 0)]
      ELSE [text |-> "fallback-menu"]

\* how the completions request can end
RemoteFailures == {"network-error", "non-2xx", "unparseable-body", "no-choices"}
RemoteOutcomes == RemoteFailures \cup {"text", "empty-content"}

\* variant of remoteResult: the !response.ok throw outside the try
remoteResultRethrows(outcome, message, events, as) ==
  IF outcome = "non-2xx"
  THEN [threw |-> TRUE, text |-> [text |-> "none"]]
  ELSE IF outcome \in RemoteFailures
  THEN [threw |-> FALSE, text |-> generateFallbackResponse(message, events, as)]
  ELSE IF outcome = "empty-content"
  THEN [threw |-> FALSE, text |-> [text |-> "apology"]]
  ELSE [threw |-> FALSE, text |-> [text |-> "generated"]]

\* generateAIResponse from the fetch on: a failed call, a non-ok status, a body
\* that is not JSON or has no choices[0].message all throw inside the try and
\* the catch returns the fallback; falsy content gives the apology string
remoteResult(outcome, message, events, as) ==
  IF outcome \in RemoteFailures
  THEN [threw |-> FALSE, text |-> generateFallbackResponse(message, events, as)]
  ELSE IF outcome = "empty-content"
  THEN [threw |-> FALSE, text |-> [text |-> "apology"]]
  ELSE [threw |-> FALSE, text |-> [text |-> "generated"]]

\* from('logs')...eq('client_id', c).order('timestamp', desc).limit(20)
chatEvents(c) == slice(SortDesc(store.logs[c], LAMBDA e : e.timestamp), ChatEventLimit)

\* from('assets').select('*').eq('client_id', c)
chatAssets(c) == store.assets[c]

ErrorBody == [status |-> 500, error |-> "Failed to process request"]

ChatInit ==
  /\ logs = <<>>
  /\ assets = <<>>
  /\ dateRange = DefaultRange
  /\ reportData = Pending
  /\ store \in Stores
  /\ selectedClient \in Clients
  /\ tab = "ai-assistant"
  /\ logsQuery = IdleQuery
  /\ assetsQuery = IdleQuery
  /\ view = "monitor"
  /\ exportLog = NoExport
  /\ openAIApiKey \in BOOLEAN
  /\ ChatIdle
  /\ SessionIdle

\* Array.prototype.slice(-n)
sliceLast(s, n) == SubSeq(s, Max(1, Len(s) - n + 1), Len(s))

\* a message of the conversation as the turn sent to the function
turnOf(msg) ==
  [role |-> IF msg.sender = "user" THEN "user" ELSE "assistant", content |-> msg.content]

\* messages.slice(-10).map(msg => ({role, content})), messages being the list
\* of the render the handler was created in
conversationHistory(msgs) ==
  LET recent == sliceLast(msgs, HistoryLimit)
  IN  [i \in 1..Len(recent) |-> turnOf(recent[i])]

\* Array.isArray(asset.vulnerabilities) ? asset.vulnerabilities.length : 0
vulnCount(a) == IF a.vulnerabilities.isArray THEN Len(a.vulnerabilities.items) ELSE 0

\* the callouts under the asset list: the high-risk one, then the offline one
callouts(as) ==
  (IF Count(as, LAMBDA a : a.vulnerabilities.isArray /\ Len(a.vulnerabilities.items) > 0) > 0
   THEN <<[text |-> "High Risk Assets",
           count |-> Count(as, LAMBDA a : a.vulnerabilities.isArray
                                          /\ Len(a.vulnerabilities.items) > 0)]>>
   ELSE <<>>)
  \o (IF Count(as, LAMBDA a : a.status = "offline") > 0
      THEN <<[text |-> "Offline Assets",
              count |-> Count(as, LAMBDA a : a.status = "offline")]>>
      ELSE <<>>)

\* variant of buildSecurityContext: the callouts counted on the assets listed
buildSecurityContextOfListed(events, as) ==
  [events |->
     IF Len(events) > 0
     THEN [text |-> "Recent Security Events",
           total |-> Len(events),
           urgent |-> Count(events, LAMBDA e : e.severity = "critical"
                                               \/ e.severity = "high"),
           items |-> [i \in 1..Len(slice(events, ContextItems)) |->
                        [index |-> i, event |-> events[i].event_id,
                         severity |-> events[i].severity, time |-> events[i].timestamp]]]
     ELSE [text |-> "No recent security events detected."],
   assets |->
     IF Len(as) > 0
     THEN [text |-> "Asset Inventory",
           total |-> Len(as),
           items |-> [i \in 1..Len(slice(as, ContextItems)) |->
                        [index |-> i, name |-> as[i].name, status |-> as[i].status,
                         vulnerabilities |-> vulnCount(as[i])]],
           callouts |-> callouts(slice(as, ContextItems))]
     ELSE [text |-> "No assets currently registered for monitoring."]]

\* buildSecurityContext: the text as its two blocks, each the sentence that
\* nothing exists or the heading with its figures, the entries listed and,
\* for the assets, the callouts
buildSecurityContext(events, as) ==
  [events |->
     IF Len(events) > 0
     THEN [text |-> "Recent Security Events",
           total |-> Len(events),
           urgent |-> Count(events, LAMBDA e : e.severity = "critical"
                                               \/ e.severity = "high"),
           items |-> [i \in 1..Len(slice(events, ContextItems)) |->
                        [index |-> i, event |-> events[i].event_id,
                         severity |-> events[i].severity, time |-> events[i].timestamp]]]
     ELSE [text |-> "No recent security events detected."],
   assets |->
     IF Len(as) > 0
     THEN [text |-> "Asset Inventory",
           total |-> Len(as),
           items |-> [i \in 1..Len(slice(as, ContextItems)) |->
                        [index |-> i, name |-> as[i].name, status |-> as[i].status,
                         vulnerabilities |-> vulnCount(as[i])]],
           callouts |-> callouts(as)]
     ELSE [text |-> "No assets currently registered for monitoring."]]

\* variant of requestMessages: the history counted with the new message in it
requestMessagesWithNewTurn(history, message, events, as) ==
  <<[role |-> "system",
     content |-> [text |-> "system-prompt",
                  securityContext |-> buildSecurityContext(events, as)]]>>
  \o sliceLast(Append(history, [role |-> "user", content |-> message]), HistoryLimit)
  \o <<[role |-> "user", content |-> message]>>

\* the messages of the completions request: the system prompt with the
\* security context in it, the last turns of the history received, the message
requestMessages(history, message, events, as) ==
  <<[role |-> "system",
     content |-> [text |-> "system-prompt",
                  securityContext |-> buildSecurityContext(events, as)]]>>
  \o sliceLast(history, HistoryLimit)
  \o <<[role |-> "user", content |-> message]>>

\* variant of HandleSendMessage: the loading flag left as it is
HandleSendMessageNoFlag(m) ==
  /\ ~isLoading
  /\ IF trim(m) = <<>>
     THEN UNCHANGED <<messages, messageIds, isLoading, chat>>
     ELSE /\ messages' = Append(messages, [sender |-> "user", content |-> m])
          /\ messageIds' = Append(messageIds, clock)
          /\ isLoading' = isLoading
          /\ chat' = [phase |-> "invoked", message |-> m, clientId |-> selectedClient,
                      conversationHistory |-> conversationHistory(messages),
                      remote |-> "not-called"]
  /\ UNCHANGED <<sessionVars, aggVars, dashVars, openAIApiKey, toasts, exchanges, clock>>

\* handleSendMessage up to the await, called from the input, the send button
\* or a quick action, all disabled while isLoading: a blank text is ignored,
\* else the user message is appended, the flag set and the function invoked
HandleSendMessage(m) ==
  /\ ~isLoading
  /\ IF trim(m) = <<>>
     THEN UNCHANGED <<messages, messageIds, isLoading, chat>>
     ELSE /\ messages' = Append(messages, [sender |-> "user", content |-> m])
          /\ messageIds' = Append(messageIds, clock)
          /\ isLoading' = TRUE
          /\ chat' = [phase |-> "invoked", message |-> m, clientId |-> selectedClient,
                      conversationHistory |-> conversationHistory(messages),
                      remote |-> "not-called"]
  /\ UNCHANGED <<sessionVars, aggVars, dashVars, openAIApiKey, toasts, exchanges, clock>>

\* the request does not reach the function: invoke resolves with data null
InvokeFails ==
  /\ chat.phase = "invoked"
  /\ chat' = [chat EXCEPT !.phase = "responded"] @@ [response |-> [status |-> 0]]
  /\ UNCHANGED <<sessionVars, aggVars, dashVars, openAIApiKey, messages, isLoading, toasts, exchanges,
                 clock, messageIds>>

\* serve: a row query fails, or generateAIResponse throws for the missing
\* key: the catch answers 500
ServeFails ==
  /\ chat.phase = "invoked"
  /\ chat' = [chat EXCEPT !.phase = "responded"] @@ [response |-> ErrorBody]
  /\ UNCHANGED <<sessionVars, aggVars, dashVars, openAIApiKey, messages, isLoading, toasts, exchanges,
                 clock, messageIds>>

\* serve: both row queries succeed, the key is set, the completions request
\* goes out
ServeCallsRemote ==
  /\ chat.phase = "invoked"
  /\ openAIApiKey
  /\ chat' = [chat EXCEPT !.phase = "remote"]
              @@ [request |-> requestMessages(chat.conversationHistory, chat.message,
                                              chatEvents(chat.clientId),
                                              chatAssets(chat.clientId))]
  /\ UNCHANGED <<sessionVars, aggVars, dashVars, openAIApiKey, messages, isLoading, toasts, exchanges,
                 clock, messageIds>>

\* the completions request ends and serve answers with what
\* generateAIResponse returns (500 had it thrown)
RemoteSettles(outcome) ==
  /\ chat.phase = "remote"
  /\ LET r == remoteResult(outcome, chat.message, chatEvents(chat.clientId),
                            chatAssets(chat.clientId))
     IN  chat' = [chat EXCEPT !.phase = "responded", !.remote = outcome]
                 @@ [response |->
                       IF r.threw THEN ErrorBody
                       ELSE [status |-> 200, response |-> r.text,
                             context |-> [events |-> Len(chatEvents(chat.clientId)),
                                          assets |-> Len(chatAssets(chat.clientId))]]]
  /\ UNCHANGED <<sessionVars, aggVars, dashVars, openAIApiKey, messages, isLoading, toasts, exchanges,
                 clock, messageIds>>

\* variant of ReceiveResponse: the answer put at the head of the list
ReceiveResponseOnTop ==
  /\ chat.phase = "responded"
  /\ LET ok == chat.response.status = 200
         reply == IF ok THEN chat.response.response ELSE [text |-> "ui-error"]
     IN  /\ messages' = <<[sender |-> "ai", content |-> reply]>> \o messages
         /\ messageIds' = <<clock + 1>> \o messageIds
         /\ toasts' = IF ok THEN toasts ELSE toasts + 1
         /\ exchanges' = Append(exchanges,
                                [message |-> chat.message, clientId |-> chat.clientId,
                                 remote |-> chat.remote, reply |-> reply,
                                 toast |-> ~ok])
  /\ isLoading' = FALSE
  /\ chat' = NoRequest
  /\ UNCHANGED <<sessionVars, aggVars, dashVars, openAIApiKey, clock>>

\* handleSendMessage after the await: data is the body of a 2xx answer and
\* null otherwise; reading data.error of null throws into the catch, which
\* raises the toast and appends the error text
ReceiveResponse ==
  /\ chat.phase = "responded"
  /\ LET ok == chat.response.status = 200
         reply == IF ok THEN chat.response.response ELSE [text |-> "ui-error"]
     IN  /\ messages' = Append(messages, [sender |-> "ai", content |-> reply])
         /\ messageIds' = Append(messageIds, clock + 1)
         /\ toasts' = IF ok THEN toasts ELSE toasts + 1
         /\ exchanges' = Append(exchanges,
                                [message |-> chat.message, clientId |-> chat.clientId,
                                 remote |-> chat.remote, reply |-> reply,
                                 toast |-> ~ok])
  /\ isLoading' = FALSE
  /\ chat' = NoRequest
  /\ UNCHANGED <<sessionVars, aggVars, dashVars, openAIApiKey, clock>>

ChatNext ==
  \/ \E m \in UserMessages : Len(exchanges) < MaxSends /\ HandleSendMessage(m)
  \/ InvokeFails
  \/ ServeFails
  \/ ServeCallsRemote
  \/ \E o \in RemoteOutcomes : RemoteSettles(o)
  \/ ReceiveResponse

SpecChat == ChatInit /\ [][ChatNext]_vars

\* ------------------------------------ ai-chat, the rule-based version of it
\* (the second serve of ai-chat/index.ts, which answers without a remote call)

\* String.prototype.toLowerCase on the severity values the stores hold
severityToLowerCase(sev) ==
  CASE sev = "HIGH" -> "high"
    [] sev = "Critical" -> "critical"
    [] OTHER -> sev

\* a column that holds a text or nothing
NoText == [present |-> FALSE, text |-> <<>>]
Text(str) == [present |-> TRUE, text |-> str]

\* x?.toLowerCase() || '' for a text that may be missing
lowerOrEmpty(x) == IF x.present THEN toLowerCase(x.text) ELSE <<>>

classifyEvent(event) ==
  LET severity == IF event.severity = Null THEN "" ELSE severityToLowerCase(event.severity)
      alertName == lowerOrEmpty(event.alert_name)
      eventType == lowerOrEmpty(event.event_type)
  IN  IF severity = "critical" \/ severity = "high"
      THEN IF \/ includes(alertName, <<"m", "a", "l", "w", "a", "r", "e">>)
              \/ includes(alertName, <<"t", "r", "o", "j", "a", "n">>)
              \/ includes(eventType, <<"m", "a", "l", "w", "a", "r", "e">>)
           THEN "True Positive - Malware Detection"
           ELSE IF \/ includes(alertName, <<"i", "n", "t", "r", "u", "s", "i", "o", "n">>)
                   \/ includes(alertName, <<"a", "t", "t", "a", "c", "k">>)
                   \/ includes(eventType, <<"i", "n", "t", "r", "u", "s", "i", "o", "n">>)
           THEN "True Positive - Intrusion Attempt"
           ELSE "True Positive - Security Threat"
      ELSE IF severity = "low" \/ severity = "info"
      THEN "True Negative - Normal Activity"
      ELSE "Requires Investigation"

\* a.vulnerabilities && a.vulnerabilities.length > 0
hasVulnerabilities(a) == a.vulnerabilities.isArray /\ Len(a.vulnerabilities.items) > 0

isUrgent(e) == e.severity = "critical" \/ e.severity = "high"

\* variant of generateRecommendations: the list returned whole
generateRecommendationsUncapped(events, as) ==
  (IF Count(events, isUrgent) > 0
   THEN <<[text |-> "Investigate and respond to all critical/high severity alerts within 1 hour"],
          [text |-> "Implement network segmentation to contain potential threats"]>>
   ELSE <<>>)
  \o (IF Count(as, hasVulnerabilities) > 0
      THEN <<[text |-> "Patch vulnerabilities on affected systems",
              systems |-> Count(as, hasVulnerabilities)],
             [text |-> "Conduct vulnerability assessment on all critical assets monthly"]>>
      ELSE <<>>)
  \o <<[text |-> "Enable multi-factor authentication on all administrative accounts"],
       [text |-> "Implement continuous security monitoring and alerting"],
       [text |-> "Conduct security awareness training for all users"]>>

generateRecommendations(events, as) ==
  slice((IF Count(events, isUrgent) > 0
         THEN <<[text |-> "Investigate and respond to all critical/high severity alerts within 1 hour"],
                [text |-> "Implement network segmentation to contain potential threats"]>>
         ELSE <<>>)
        \o (IF Count(as, hasVulnerabilities) > 0
            THEN <<[text |-> "Patch vulnerabilities on affected systems",
                    systems |-> Count(as, hasVulnerabilities)],
                   [text |-> "Conduct vulnerability assessment on all critical assets monthly"]>>
            ELSE <<>>)
        \o <<[text |-> "Enable multi-factor authentication on all administrative accounts"],
             [text |-> "Implement continuous security monitoring and alerting"],
             [text |-> "Conduct security awareness training for all users"]>>,
        RecommendationCap)

\* the keyword groups of generateSecurityResponse, on the lower-cased message
eventsGroup(lowerMessage) ==
  \/ includes(lowerMessage, <<"e", "v", "e", "n", "t">>)
  \/ includes(lowerMessage, <<"a", "l", "e", "r", "t">>)
  \/ includes(lowerMessage, <<"i", "n", "c", "i", "d", "e", "n", "t">>)

assetsGroup(lowerMessage) ==
  \/ includes(lowerMessage, <<"a", "s", "s", "e", "t">>)
  \/ includes(lowerMessage, <<"s", "y", "s", "t", "e", "m">>)
  \/ includes(lowerMessage, <<"v", "u", "l", "n", "e", "r", "a", "b", "i", "l", "i", "t", "y">>)

classifyGroup(lowerMessage) ==
  \/ includes(lowerMessage, <<"c", "l", "a", "s", "s", "i", "f", "y">>)
  \/ includes(lowerMessage, <<"a", "n", "a", "l", "y", "z", "e">>)
  \/ includes(lowerMessage, <<"w", "h", "a", "t", " ", "i", "s", " ", "t", "h", "i", "s">>)

recommendGroup(lowerMessage) ==
  \/ includes(lowerMessage, <<"r", "e", "c", "o", "m", "m", "e", "n", "d">>)
  \/ includes(lowerMessage, <<"s", "u", "g", "g", "e", "s", "t">>)
  \/ includes(lowerMessage, <<"a", "d", "v", "i", "c", "e">>)

\* Math.round((Math.random() * 0.3 + 0.7) * 100), rnd being the thousandths
\* Math.random() returns
confidence(rnd) == MathRound(rnd * 3 + 7000, 100)

\* generateSecurityResponse: the text as the branch taken and the figures
\* written into it
generateSecurityResponse(message, events, as, rnd) ==
  LET lowerMessage == toLowerCase(message)
  IN  IF eventsGroup(lowerMessage)
      THEN IF Len(events) = 0 THEN [text |-> "rules-no-events"]
           ELSE [text |-> "rules-events",
                 total |-> Len(events),
                 attention |-> Count(events, isUrgent)]
      ELSE IF assetsGroup(lowerMessage)
      THEN IF Len(as) = 0 THEN [text |-> "rules-no-assets"]
           ELSE [text |-> "rules-assets",
                 total |-> Len(as),
                 vulnerable |-> Count(as, hasVulnerabilities),
                 offline |-> Count(as, LAMBDA a : a.status = "offline")]
      ELSE IF classifyGroup(lowerMessage)
      THEN IF Len(events) = 0 THEN [text |-> "rules-nothing-to-classify"]
           ELSE [text |-> "rules-classification",
                 event |-> events[1].event_id,
                 classification |-> classifyEvent(events[1]),
                 confidence |-> confidence(rnd)]
      ELSE IF recommendGroup(lowerMessage)
      THEN [text |-> "rules-recommendations",
            items |-> generateRecommendations(events, as)]
      ELSE [text |-> "rules-menu"]

\* the rows the rule-based serve reads:
\* from('logs')...order('timestamp', desc).limit(10) and
\* from('assets')...eq('client_id', c).limit(5)
ruleEvents(c) == slice(SortDesc(store.logs[c], LAMBDA e : e.timestamp), RuleEventLimit)
ruleAssets(c) == slice(store.assets[c], RuleAssetLimit)

RuleSeverities == {"critical", "HIGH", "medium", "low", "info", Null}
AlertNames ==
  {NoText, Text(<<"M", "a", "l", "w", "a", "r", "e">>), Text(<<"t", "r", "o", "j", "a", "n">>), Text(<<"A", "t", "t", "a", "c", "k">>), Text(<<"i", "n", "t", "r", "u", "s", "i", "o", "n">>), Text(<<"s", "c", "a", "n">>)}
EventTypes ==
  {NoText, Text(<<"m", "a", "l", "w", "a", "r", "e">>), Text(<<"a", "t", "t", "a", "c", "k">>), Text(<<"I", "n", "t", "r", "u", "s", "i", "o", "n">>), Text(<<"l", "o", "g", "i", "n">>)}

\* stores whose client c1 has its latest event of every kind, listed between
\* two older events, and six assets; c2 has that event alone, or no event
\* when it comes without an alert name, and no asset
RuleStores ==
  {[logs |-> [c \in Clients |->
                IF c = "c1"
                THEN <<[event_id |-> 1, timestamp |-> 0, severity |-> "high",
                        alert_name |-> Text(<<"s", "c", "a", "n">>), event_type |-> NoText],
                       [event_id |-> 2, timestamp |-> 2, severity |-> sev,
                        alert_name |-> an, event_type |-> et],
                       [event_id |-> 3, timestamp |-> 1, severity |-> "low",
                        alert_name |-> NoText, event_type |-> Text(<<"l", "o", "g", "i", "n">>)]>>
                ELSE IF an = NoText THEN <<>>
                ELSE <<[event_id |-> 2, timestamp |-> 2, severity |-> sev,
                        alert_name |-> an, event_type |-> et]>>],
     assets |-> [c \in Clients |->
                IF c = "c1"
                THEN MkAssets(<<<<"offline", Vulns(2, 1)>>, <<"online", NotAnArray>>,
                                <<"online", Vulns(0, 0)>>, <<"online", Vulns(1, 0)>>,
                                <<"maintenance", Vulns(0, 0)>>, <<"offline", Vulns(1, 1)>>>>)
                ELSE <<>>]] :
     sev \in RuleSeverities, an \in AlertNames, et \in EventTypes}

RuleMessages ==
  {<<"C", "l", "a", "s", "s", "i", "f", "y", " ", "i", "t">>,
   <<"w", "h", "a", "t", " ", "i", "s", " ", "t", "h", "i", "s", "?">>,
   <<"c", "l", "a", "s", "s", "i", "f", "y", " ", "t", "h", "i", "s", " ", "a", "l", "e", "r", "t">>,
   <<"R", "e", "c", "o", "m", "m", "e", "n", "d">>,
   <<"s", "u", "g", "g", "e", "s", "t", " ", "a", "s", "s", "e", "t", " ", "f", "i", "x", "e", "s">>,
   <<"a", "n", "y", " ", "a", "d", "v", "i", "c", "e">>,
   <<"m", "y", " ", "s", "y", "s", "t", "e", "m", "s">>,
   <<"h", "e", "l", "l", "o">>}

RulesInit ==
  /\ logs = <<>>
  /\ assets = <<>>
  /\ dateRange = DefaultRange
  /\ reportData = Pending
  /\ store \in RuleStores
  /\ selectedClient \in Clients
  /\ tab = "ai-assistant"
  /\ logsQuery = IdleQuery
  /\ assetsQuery = IdleQuery
  /\ view = "monitor"
  /\ exportLog = NoExport
  /\ openAIApiKey = FALSE
  /\ ChatIdle
  /\ SessionIdle

\* serve, rule-based: both row queries succeed and the answer is what
\* generateSecurityResponse returns
ServeRuleBased(rnd) ==
  /\ chat.phase = "invoked"
  /\ chat' = [chat EXCEPT !.phase = "responded"]
              @@ [response |->
                    [status |-> 200,
                     response |-> generateSecurityResponse(chat.message,
                                                           ruleEvents(chat.clientId),
                                                           ruleAssets(chat.clientId), rnd),
                     context |-> [events |-> Len(ruleEvents(chat.clientId)),
                                  assets |-> Len(ruleAssets(chat.clientId))]]]
  /\ UNCHANGED <<sessionVars, aggVars, dashVars, openAIApiKey, messages, isLoading, toasts, exchanges,
                 clock, messageIds>>

\* the first question of a conversation and its answer
RulesNext ==
  \/ \E m \in RuleMessages : exchanges = <<>> /\ HandleSendMessage(m)
  \/ InvokeFails
  \/ ServeFails
  \/ \E rnd \in RandomDraws : ServeRuleBased(rnd)
  \/ ReceiveResponse

SpecRules == RulesInit /\ [][RulesNext]_vars

\* ------------------------------------- the two responders, one question each
\* the stores whose latest event has neither alert name nor event type
PlainStores ==
  {st \in RuleStores : /\ st.logs["c1"][2].alert_name = NoText
                        /\ st.logs["c1"][2].event_type = NoText}

KeywordMessages ==
  {<<"c", "l", "a", "s", "s", "i", "f", "y", " ", "t", "h", "i", "s", " ", "a", "l", "e", "r", "t">>,
   <<"R", "e", "c", "o", "m", "m", "e", "n", "d", " ", "f", "o", "r", " ", "t", "h", "i", "s", " ", "e", "v", "e", "n", "t">>,
   <<"C", "l", "a", "s", "s", "i", "f", "y", " ", "i", "t">>,
   <<"s", "u", "g", "g", "e", "s", "t", " ", "a", "s", "s", "e", "t", " ", "f", "i", "x", "e", "s">>,
   <<"a", "n", "y", " ", "a", "d", "v", "i", "c", "e">>,
   <<"h", "e", "l", "l", "o">>}

RespondersInit ==
  /\ logs = <<>>
  /\ assets = <<>>
  /\ dateRange = DefaultRange
  /\ reportData = Pending
  /\ store \in PlainStores
  /\ selectedClient \in Clients
  /\ tab = "ai-assistant"
  /\ logsQuery = IdleQuery
  /\ assetsQuery = IdleQuery
  /\ view = "monitor"
  /\ exportLog = NoExport
  /\ openAIApiKey = TRUE
  /\ ChatIdle
  /\ SessionIdle

\* the first question of a conversation, answered by the function in either
\* of its versions
RespondersNext ==
  \/ \E m \in KeywordMessages : exchanges = <<>> /\ HandleSendMessage(m)
  \/ ServeFails
  \/ \E rnd \in RandomDraws : ServeRuleBased(rnd)
  \/ ServeCallsRemote
  \/ \E o \in RemoteOutcomes : RemoteSettles(o)
  \/ ReceiveResponse

SpecResponders == RespondersInit /\ [][RespondersNext]_vars

\* ------------------------------------------------------ a long conversation
MaxTurns == 6

TalkMessages == {<<"a", "l", "e", "r", "t", "s">>, <<"h", "i">>}

TalkInit ==
  /\ logs = <<>>
  /\ assets = <<>>
  /\ dateRange = DefaultRange
  /\ reportData = Pending
  /\ store \in Stores
  /\ selectedClient = "c1"
  /\ tab = "ai-assistant"
  /\ logsQuery = IdleQuery
  /\ assetsQuery = IdleQuery
  /\ view = "monitor"
  /\ exportLog = NoExport
  /\ openAIApiKey = TRUE
  /\ ChatIdle
  /\ SessionIdle

\* the conversation with the key set and a function that is reached and
\* fails or gets a text from the completions request
TalkNext ==
  \/ \E m \in TalkMessages : Len(exchanges) < MaxTurns /\ HandleSendMessage(m)
  \/ ServeFails
  \/ ServeCallsRemote
  \/ RemoteSettles("text")
  \/ ReceiveResponse

SpecTalk == TalkInit /\ [][TalkNext]_vars

\* ---------------------------------------------------- the conversation in time
MaxTicks == 3

\* time passes
Tick ==
  /\ clock < StartTime + MaxTicks
  /\ \E d \in 1..2 : clock' = clock + d
  /\ UNCHANGED <<sessionVars, aggVars, dashVars, openAIApiKey, messages, isLoading, toasts, chat,
                 exchanges, messageIds>>

\* the conversation with a function that is not reached or fails; a send
\* comes 1 ms or more after the answer before it
TimedNext ==
  \/ \E m \in TalkMessages :
       /\ Len(exchanges) < MaxSends
       /\ clock >= messageIds[Len(messageIds)]
       /\ HandleSendMessage(m)
  \/ InvokeFails
  \/ ServeFails
  \/ ReceiveResponse
  \/ Tick

SpecTimed == TalkInit /\ [][TimedNext]_vars

\* ------------------------------------------------------ AuthService, useAuth
MaxChanges == 1
MaxMounts == 2

\* the users of the client library: the second has no email, the first no
\* name in its metadata
SupaUsers ==
  {[present |-> TRUE, id |-> "u1", email |-> "ann@soc.io", metaName |-> Null],
   [present |-> TRUE, id |-> "u2", email |-> Null, metaName |-> "Bob"]}

\* what getSession and onAuthStateChange hand over: no session, a session of
\* a user, a session whose user is missing
Sessions ==
  {NoSession} \cup {[present |-> TRUE, user |-> u] : u \in SupaUsers \cup {NoUser}}

\* email.split('@')[0]
localPart(email) == IF email = "ann@soc.io" THEN "ann" ELSE email

\* mapUser
mapUser(user) ==
  [present |-> TRUE,
   id |-> user.id,
   email |-> IF user.email = Null THEN "" ELSE user.email,
   name |-> IF user.metaName # Null THEN user.metaName
            ELSE IF user.email = Null THEN Null ELSE localPart(user.email)]

\* session?.user ? this.mapUser(session.user) : null
userOf(session) ==
  IF session.present /\ session.user.present THEN mapUser(session.user) ELSE NoUser

\* the state initializeAuth and its change callback publish for a session
stateOf(session) == [user |-> userOf(session), session |-> session, loading |-> FALSE]

\* variant of FailedState: the loading field left out of the update
FailedStateStillLoading == [user |-> NoUser, session |-> NoSession]

\* the state the catch block publishes
FailedState == [user |-> NoUser, session |-> NoSession, loading |-> FALSE]

\* { ...this.currentState, ...newState }
merge(old, new) == [f \in DOMAIN old |-> IF f \in DOMAIN new THEN new[f] ELSE old[f]]

\* this.listeners.forEach(listener => listener(state)): the calls, in order
notify(ls, st) == [i \in 1..Len(ls) |-> [listener |-> ls[i], state |-> st]]

\* variant of unsubscribe: the last listener taken off the list
unsubscribeLast(ls, listener) == SubSeq(ls, 1, Len(ls) - 1)

\* the function subscribe returns: this.listeners.filter(l => l !== listener)
unsubscribe(ls, listener) == SelectSeq(ls, LAMBDA l : l # listener)

\* a component is on screen
OnScreen(c) == hooks[c].stage \in {"rendered", "subscribed"}

\* updateState: the merge, then every listener called with the new state; a
\* listener is the setAuthState of a mounted component, which takes the state
UpdateState(newState) ==
  /\ currentState' = merge(currentState, newState)
  /\ delivered' = delivered \o notify(listeners, currentState')
  /\ hooks' = [c \in Components |->
                IF /\ OnScreen(c)
                   /\ \E i \in 1..Len(listeners) : listeners[i] = hooks[c].listener
                THEN [hooks[c] EXCEPT !.authState = currentState']
                ELSE hooks[c]]

\* initializeAuth, the try block: getSession resolves, the state is published
\* and the change callback registered
GetSessionResolves(session) ==
  /\ authPhase = "starting"
  /\ UpdateState(stateOf(session))
  /\ authPhase' = "listening"
  /\ UNCHANGED <<aggVars, dashVars, chatVars, settingsVars, listeners, changes, mounts>>

\* initializeAuth, the catch block: getSession rejects
GetSessionRejects ==
  /\ authPhase = "starting"
  /\ UpdateState(FailedState)
  /\ authPhase' = "failed"
  /\ UNCHANGED <<aggVars, dashVars, chatVars, settingsVars, listeners, changes, mounts>>

\* the callback given to onAuthStateChange
AuthStateChange(session) ==
  /\ authPhase = "listening"
  /\ changes < MaxChanges
  /\ UpdateState(stateOf(session))
  /\ changes' = changes + 1
  /\ UNCHANGED <<aggVars, dashVars, chatVars, settingsVars, listeners, authPhase, mounts>>

\* variant of routeRender: the user looked at before the loading flag
routeRenderUserFirst(authState) ==
  IF ~authState.user.present THEN "redirect-login"
  ELSE IF authState.loading THEN "spinner"
  ELSE "children"

\* ProtectedRoute on the state of its hook
routeRender(authState) ==
  IF authState.loading THEN "spinner"
  ELSE IF ~authState.user.present THEN "redirect-login"
  ELSE "children"

\* Login on the state of its hook
loginRender(authState) ==
  IF authState.user.present THEN "redirect-home"
  ELSE IF authState.loading THEN "loading"
  ELSE "form"

\* what a mounted component renders
render(c) ==
  IF c = "route" THEN routeRender(hooks[c].authState)
  ELSE loginRender(hooks[c].authState)

\* a component that calls useAuth renders for the first time: its state is
\* getState(), its setter a listener nobody has seen
Mount(c) ==
  /\ ~OnScreen(c)
  /\ mounts < MaxMounts
  /\ hooks' = [hooks EXCEPT ![c] = [stage |-> "rendered", listener |-> mounts + 1,
                                     authState |-> currentState]]
  /\ mounts' = mounts + 1
  /\ UNCHANGED <<aggVars, dashVars, chatVars, settingsVars, currentState, listeners,
                 authPhase, changes, delivered>>

\* the effect of useAuth: subscribe(setAuthState) pushes the listener and
\* calls it with the current state
Subscribe(c) ==
  /\ hooks[c].stage = "rendered"
  /\ listeners' = Append(listeners, hooks[c].listener)
  /\ delivered' = Append(delivered, [listener |-> hooks[c].listener, state |-> currentState])
  /\ hooks' = [hooks EXCEPT ![c] = [@ EXCEPT !.stage = "subscribed",
                                                !.authState = currentState]]
  /\ UNCHANGED <<aggVars, dashVars, chatVars, settingsVars, currentState, authPhase,
                 changes, mounts>>

\* the component unmounts: the cleanup of the effect calls the function
\* subscribe returned
Unmount(c) ==
  /\ hooks[c].stage = "subscribed"
  /\ listeners' = unsubscribe(listeners, hooks[c].listener)
  /\ hooks' = [hooks EXCEPT ![c] = [@ EXCEPT !.stage = "unmounted"]]
  /\ UNCHANGED <<aggVars, dashVars, chatVars, settingsVars, currentState, authPhase,
                 changes, delivered, mounts>>

AuthInit ==
  /\ logs = <<>>
  /\ assets = <<>>
  /\ dateRange = DefaultRange
  /\ reportData = Pending
  /\ store = EmptyStore
  /\ DashIdle
  /\ openAIApiKey = FALSE
  /\ ChatIdle
  /\ SessionIdle

AuthNext ==
  \/ \E session \in Sessions : GetSessionResolves(session)
  \/ GetSessionRejects
  \/ \E session \in Sessions : AuthStateChange(session)
  \/ \E c \in Components : Mount(c)
  \/ \E c \in Components : Subscribe(c)
  \/ \E c \in Components : Unmount(c)

SpecAuth == AuthInit /\ [][AuthNext]_vars

\* --------------------------------------------------------------- SettingsTab
MaxTabs == 2

\* what the user types: nothing, a blank, the expected key, the expected key
\* with a blank after it, another key
KeyInputs ==
  {<<>>, <<" ">>, ExpectedKey, ExpectedKey \o <<" ">>, <<"b", "a", "d">>}

\* onChange of the input, which is rendered while the flag is false and
\* disabled while validating
SetApiKey(k) ==
  /\ ~apiKeyConfigured
  /\ ~isValidating
  /\ apiKey' = k
  /\ UNCHANGED <<aggVars, dashVars, chatVars, authVars, isValidating, validationError,
                 tabInstance, submissions, localStorage, apiKeyConfigured>>

\* handleApiKeySubmit up to the await, from the Connect button, rendered
\* while the flag is false and disabled while validating: a blank key gets
\* the error, any other starts the 1500 ms timer
HandleApiKeySubmit ==
  /\ ~apiKeyConfigured
  /\ ~isValidating
  /\ IF trim(apiKey) = <<>>
     THEN /\ validationError' = EnterKey
          /\ UNCHANGED <<isValidating, submissions>>
     ELSE /\ isValidating' = TRUE
          /\ validationError' = NoError
          /\ submissions' = submissions \cup {[instance |-> tabInstance, key |-> apiKey]}
  /\ UNCHANGED <<aggVars, dashVars, chatVars, authVars, apiKey, tabInstance,
                 localStorage, apiKeyConfigured>>

\* handleApiKeySubmit after the await: the expected key is stored and the
\* flag set, any other key gets the error; the setters of the component act
\* if it is still the one on screen
TimerFires(sub) ==
  /\ sub \in submissions
  /\ submissions' = submissions \ {sub}
  /\ IF sub.key = ExpectedKey
     THEN /\ localStorage' = Present(sub.key)
          /\ apiKeyConfigured' = TRUE
          /\ apiKey' = IF sub.instance = tabInstance THEN <<>> ELSE apiKey
          /\ UNCHANGED validationError
     ELSE /\ validationError' = IF sub.instance = tabInstance THEN InvalidKey
                                 ELSE validationError
          /\ UNCHANGED <<localStorage, apiKeyConfigured, apiKey>>
  /\ isValidating' = IF sub.instance = tabInstance THEN FALSE ELSE isValidating
  /\ UNCHANGED <<aggVars, dashVars, chatVars, authVars, tabInstance>>

\* variant of HandleDisconnect: the stored key left where it is
HandleDisconnectFlagOnly ==
  /\ apiKeyConfigured
  /\ apiKeyConfigured' = FALSE
  /\ UNCHANGED <<aggVars, dashVars, chatVars, authVars, apiKey, isValidating,
                 validationError, tabInstance, submissions, localStorage>>

\* handleDisconnect, from the button rendered while the flag is true
HandleDisconnect ==
  /\ apiKeyConfigured
  /\ localStorage' = Absent
  /\ apiKeyConfigured' = FALSE
  /\ UNCHANGED <<aggVars, dashVars, chatVars, authVars, apiKey, isValidating,
                 validationError, tabInstance, submissions>>

\* the dashboard leaves the settings and comes back: a new SettingsTab with
\* its initial state, while the timers of the old one go on
Remount ==
  /\ tabInstance < MaxTabs
  /\ tabInstance' = tabInstance + 1
  /\ apiKey' = <<>>
  /\ isValidating' = FALSE
  /\ validationError' = NoError
  /\ UNCHANGED <<aggVars, dashVars, chatVars, authVars, submissions, localStorage,
                 apiKeyConfigured>>

\* a session starts with anything in the storage, and the flag read from it
SettingsInit ==
  /\ logs = <<>>
  /\ assets = <<>>
  /\ dateRange = DefaultRange
  /\ reportData = Pending
  /\ store = EmptyStore
  /\ DashIdle
  /\ openAIApiKey = FALSE
  /\ ChatIdle
  /\ AuthStart
  /\ SettingsFresh
  /\ localStorage \in {Absent} \cup {Present(k) : k \in KeyInputs}
  /\ apiKeyConfigured = (localStorage = Present(ExpectedKey))

SettingsNext ==
  \/ \E k \in KeyInputs : SetApiKey(k)
  \/ HandleApiKeySubmit
  \/ \E sub \in submissions : TimerFires(sub)
  \/ HandleDisconnect
  \/ Remount

SpecSettings == SettingsInit /\ [][SettingsNext]_vars

\* a timer that was started fires
SpecSettingsLive ==
  SpecSettings /\ WF_vars(\E sub \in submissions : TimerFires(sub))

\* ===================================================================== claims
\* what the claims speak about, stated on the inputs themselves
HasReport == reportData # Pending /\ reportData # NullReport

Recognized == {"critical", "high", "medium", "low", "info"}

\* positions of the events with from <= timestamp <= to
InWin == {i \in DOMAIN logs :
            dateRange.from <= logs[i].timestamp /\ logs[i].timestamp <= dateRange.to}

InWinWith(sev) == {i \in InWin : logs[i].severity = sev}

Urgent == {i \in InWin : logs[i].severity \in {"critical", "high"}}

HistSum ==
  LET t == reportData.threatOverview
  IN  t.critical + t.high + t.medium + t.low + t.info

\* C1 (as the claim states it): events of unrecognized severity are left out
\* of the histogram but counted in totalEvents, so the histogram sums to
\* totalEvents minus the number of in-window events of unrecognized severity.
C1_HistogramVersusTotal ==
  HasReport =>
    /\ HistSum <= reportData.executiveSummary.totalEvents
    /\ HistSum = reportData.executiveSummary.totalEvents
                 - Cardinality({i \in InWin : logs[i].severity \notin Recognized})

\* C5: exactly the events with from <= t <= to are kept, the event figures
\* are those of that set, and eventsProcessed is its size.
C5_InclusiveWindow ==
  HasReport =>
    /\ reportData.complianceMetrics.eventsProcessed = Cardinality(InWin)
    /\ reportData.threatOverview =
         [critical |-> Cardinality(InWinWith("critical")),
          high     |-> Cardinality(InWinWith("high")),
          medium   |-> Cardinality(InWinWith("medium")),
          low      |-> Cardinality(InWinWith("low")),
          info     |-> Cardinality(InWinWith("info"))]
    /\ reportData.executiveSummary.totalEvents = HistSum
    /\ reportData.executiveSummary.criticalAlerts = Cardinality(InWinWith("critical"))
    /\ reportData.executiveSummary.highAlerts = Cardinality(InWinWith("high"))
    /\ \A k \in DOMAIN reportData.topEvents : reportData.topEvents[k].id \in InWin
    /\ Len(reportData.topEvents) = Min(TopN, Cardinality(Urgent))

\* C5 witness: a report over a list with an event on each endpoint of the
\* window and one on either side outside it
C5_Witness ==
  /\ HasReport
  /\ dateRange.from < dateRange.to
  /\ \E a, b, c, d \in DOMAIN logs :
       /\ logs[a].timestamp = dateRange.from
       /\ logs[b].timestamp = dateRange.to
       /\ logs[c].timestamp > dateRange.to
       /\ logs[d].timestamp < dateRange.from

\* r is p / q rounded to the nearest integer, halves up
IsRounded(r, p, q) == (2 * r - 1) * q <= 2 * p /\ 2 * p < (2 * r + 1) * q

\* C6: riskScore = min(100, round((critical*10 + high*5 + medium*2)
\* / max(1, totalEvents) * 100)) on the report's own figures; one critical,
\* one high and one low event give totalEvents 3 and riskScore 100.
C6_RiskFormula ==
  HasReport =>
    LET t == reportData.threatOverview
        p == (t.critical * 10 + t.high * 5 + t.medium * 2) * 100
        q == Max(1, reportData.executiveSummary.totalEvents)
        score == reportData.executiveSummary.riskScore
    IN  /\ \/ score < 100 /\ IsRounded(score, p, q)
           \/ score = 100 /\ 2 * p >= 199 * q
        /\ t = [critical |-> 1, high |-> 1, medium |-> 0, low |-> 1, info |-> 0]
             => reportData.executiveSummary.totalEvents = 3 /\ score = 100

\* C6 witness: a score that is a proper rounding (2 of 3 -> 67)
C6_Witness ==
  /\ HasReport
  /\ reportData.threatOverview.medium = 1
  /\ reportData.executiveSummary.totalEvents = 3
  /\ reportData.executiveSummary.riskScore = 67

\* C7: riskScore is an integer in [0, 100], and 0 when no event lies in the
\* window.
C7_RiskRange ==
  HasReport =>
    /\ reportData.executiveSummary.riskScore \in 0..100
    /\ InWin = {} => reportData.executiveSummary.riskScore = 0

\* C7 witness: a report over a non-empty list none of whose events is in the
\* window
C7_Witness == HasReport /\ logs # <<>> /\ InWin = {}

\* the event at a position of logs, as topEvents shows it
Shown(i) == [id |-> logs[i].event_id, severity |-> logs[i].severity,
             timestamp |-> logs[i].timestamp]

TopIds == {reportData.topEvents[k].id : k \in DOMAIN reportData.topEvents}

\* what C8 states of topEvents apart from the order of equal timestamps
TopEventsAreTheMostRecent ==
  LET top == reportData.topEvents
  IN  /\ Len(top) <= 10
      /\ \A k \in DOMAIN top : top[k].id \in Urgent /\ top[k] = Shown(top[k].id)
      /\ \A j, k \in DOMAIN top : j # k => top[j].id # top[k].id
      /\ Len(top) = Min(10, Cardinality(Urgent))
      /\ \A i \in Urgent \ TopIds : \A k \in DOMAIN top :
           logs[i].timestamp <= top[k].timestamp

\* C8 (as the claim states it): at most 10 entries, each an in-window
\* critical or high event, in strictly descending timestamp order, and the
\* most recent such events.
C8_StrictlyDescending ==
  HasReport =>
    /\ TopEventsAreTheMostRecent
    /\ \A j, k \in DOMAIN reportData.topEvents :
         j < k => reportData.topEvents[j].timestamp > reportData.topEvents[k].timestamp

\* C8 (amended): as above with the order descending but not strict: entries
\* of equal timestamp are adjacent and keep their order in the event list.
C8_Descending ==
  HasReport =>
    /\ TopEventsAreTheMostRecent
    /\ \A j, k \in DOMAIN reportData.topEvents :
         j < k =>
           \/ reportData.topEvents[j].timestamp > reportData.topEvents[k].timestamp
           \/ /\ reportData.topEvents[j].timestamp = reportData.topEvents[k].timestamp
              /\ reportData.topEvents[j].id < reportData.topEvents[k].id

\* C8 witness: more than 10 in-window critical/high events at several
\* instants, so the list is cut and both orders matter
C8_Witness ==
  /\ HasReport
  /\ Cardinality(Urgent) > 10
  /\ \E i, j \in Urgent : logs[i].timestamp < logs[j].timestamp /\ i < j
  /\ \E i, j \in Urgent : logs[i].timestamp = logs[j].timestamp /\ i # j

\* positions of the assets whose vulnerabilities are a non-empty array
Vulnerable == {i \in DOMAIN assets :
                 assets[i].vulnerabilities.isArray
                 /\ assets[i].vulnerabilities.items # <<>>}

Criticals(i) ==
  Cardinality({k \in DOMAIN assets[i].vulnerabilities.items :
                 assets[i].vulnerabilities.items[k].severity = "critical"})

SummaryNames ==
  {reportData.vulnerabilitySummary[k].assetName : k \in DOMAIN reportData.vulnerabilitySummary}

\* C9: vulnerabilitySummary holds only assets with a non-empty vulnerability
\* list, at most 10 of them, each with its total and critical counts, in
\* non-increasing criticalVulns order, and no omitted vulnerable asset has
\* more critical vulnerabilities than an included one.
C9_VulnerabilityRanking ==
  HasReport =>
    LET vs == reportData.vulnerabilitySummary
    IN  /\ Len(vs) <= 10
        /\ Len(vs) = Min(10, Cardinality(Vulnerable))
        /\ \A k \in DOMAIN vs :
             /\ vs[k].assetName \in Vulnerable
             /\ vs[k].vulnerabilityCount = Len(assets[vs[k].assetName].vulnerabilities.items)
             /\ vs[k].criticalVulns = Criticals(vs[k].assetName)
        /\ \A j, k \in DOMAIN vs : j # k => vs[j].assetName # vs[k].assetName
        /\ \A j, k \in DOMAIN vs : j < k => vs[j].criticalVulns >= vs[k].criticalVulns
        /\ \A i \in Vulnerable \ SummaryNames : \A k \in DOMAIN vs :
             Criticals(i) <= vs[k].criticalVulns

\* C9 witness: more than 10 vulnerable assets with different critical counts,
\* listed with a less critical one first, beside one that is not vulnerable
C9_Witness ==
  /\ HasReport
  /\ Cardinality(Vulnerable) > 10
  /\ Vulnerable # DOMAIN assets
  /\ \E i, j \in Vulnerable : i < j /\ Criticals(i) < Criticals(j)

\* the list C10 describes, from the inputs
ExpectedRecommendations ==
  (IF InWinWith("critical") # {}
     THEN <<"Immediate attention required for critical security alerts">> ELSE <<>>)
  \o (IF Vulnerable # {}
     THEN <<"Schedule vulnerability patching for affected assets">> ELSE <<>>)
  \o (IF \E i \in DOMAIN assets : assets[i].status = "offline"
     THEN <<"Investigate and restore offline assets">> ELSE <<>>)
  \o (IF Cardinality(InWinWith("high")) > 5
     THEN <<"Review and enhance security monitoring rules">> ELSE <<>>)
  \o <<"Regular security awareness training for all users",
        "Implement multi-factor authentication across all systems",
        "Conduct regular penetration testing",
        "Update incident response procedures">>

\* C10: the recommendations are, in order, the immediate-attention string iff
\* critical > 0, the patching string iff some asset is vulnerable, the
\* offline string iff some asset is offline, the monitoring-rules string iff
\* high > 5, then the fixed tail; with no events and no assets the list is
\* the tail alone and every count and the risk score are zero.
C10_Recommendations ==
  HasReport =>
    /\ reportData.recommendations = ExpectedRecommendations
    /\ (logs = <<>> /\ assets = <<>>) =>
         /\ Len(reportData.recommendations) = 4
         /\ reportData.executiveSummary =
              [totalEvents |-> 0, criticalAlerts |-> 0, highAlerts |-> 0,
               assetsMonitored |-> 0, riskScore |-> 0]
         /\ reportData.threatOverview =
              [critical |-> 0, high |-> 0, medium |-> 0, low |-> 0, info |-> 0]
         /\ reportData.assetStatus =
              [total |-> 0, online |-> 0, offline |-> 0, vulnerable |-> 0]
         /\ reportData.topEvents = <<>>
         /\ reportData.vulnerabilitySummary = <<>>
         /\ reportData.complianceMetrics.eventsProcessed = 0

\* C10 witness: all four conditional strings are present
C10_Witness == HasReport /\ Len(reportData.recommendations) = 8

\* C10 witness of the other side: exactly 5 high events, so no monitoring
\* string, and events and assets that trigger nothing else
C10_BoundaryReached ==
  /\ HasReport
  /\ reportData.threatOverview.high = 5
  /\ Len(reportData.recommendations) = 4

\* C2: with the from or the to endpoint undefined there is no ReportData, the
\* placeholder is shown in place of the report tabs, and an export request
\* returns without calling the PDF serializer.
C2_InvalidWindow ==
  /\ (Mounted /\ (dateRange.from = Undefined \/ dateRange.to = Undefined)) =>
       reportData = NullReport /\ view = "report-placeholder"
  /\ (exportLog.ran /\ exportLog.windowMissing) => ~exportLog.serializerCalled

\* C2 witness: an export was requested while the to endpoint is undefined
C2_Witness ==
  /\ Mounted
  /\ dateRange.from # Undefined /\ dateRange.to = Undefined
  /\ exportLog.ran /\ exportLog.windowMissing

\* C4 (as the claim states it): when a query for the open client's events or
\* assets has failed, the report view is an error state and no report is
\* computed or shown from that fetch.
C4_FetchFailureIsAnErrorState ==
  (Mounted /\ (logsQuery.status = "error" \/ assetsQuery.status = "error")) =>
    view = "error" /\ reportData = Pending

\* C3: whenever the completions call fails (network error, non-2xx status,
\* unparseable or malformed body) the function answers successfully with the
\* rule-based fallback text and the assistant appends it as a normal message:
\* no toast and no error text.
C3_RemoteFailureFallsBack ==
  \A k \in DOMAIN exchanges :
    exchanges[k].remote \in RemoteFailures =>
      /\ exchanges[k].reply =
           generateFallbackResponse(exchanges[k].message,
                                    chatEvents(exchanges[k].clientId),
                                    chatAssets(exchanges[k].clientId))
      /\ exchanges[k].reply.text \in {"fallback-events", "fallback-assets", "fallback-menu"}
      /\ ~exchanges[k].toast
      /\ messages[2 * k + 1] = [sender |-> "ai", content |-> exchanges[k].reply]

\* C3 witness: a non-2xx completions answer was replied to with the events
\* summary and no toast was raised
C3_Witness ==
  /\ toasts = 0
  /\ \E k \in DOMAIN exchanges :
       /\ exchanges[k].remote = "non-2xx"
       /\ exchanges[k].reply.text = "fallback-events"
       /\ exchanges[k].reply.total > 0

\* two reports agree in every field but the placeholder response time
SameButResponseTime(a, b) ==
  IF a = NullReport \/ b = NullReport THEN a = b
  ELSE [a EXCEPT !.complianceMetrics.avgResponseTime = 0]
       = [b EXCEPT !.complianceMetrics.avgResponseTime = 0]

\* C11: a second aggregation over the same event list, asset list and window
\* yields the same ReportData in every field except avgResponseTime, and
\* systemUptime is the same constant in both.
C11_Deterministic ==
  [][Recompute =>
       /\ SameButResponseTime(reportData, reportData')
       /\ reportData' # NullReport =>
            reportData'.complianceMetrics.systemUptime = SystemUptimeTenths]_vars

\* a report over events and assets for which another draw gives a report that
\* differs (in the response time alone)
C11_Witness ==
  /\ HasReport
  /\ Len(logs) >= 2 /\ assets # <<>>
  /\ reportData.topEvents # <<>>
  /\ \E rnd \in RandomDraws :
       /\ aggregate(logs, assets, dateRange, rnd) # reportData
       /\ SameButResponseTime(aggregate(logs, assets, dateRange, rnd), reportData)

Exported == exportLog # NoExport /\ exportLog.serializerCalled
Doc == exportLog.document
At(kind) == {i \in 1..Len(Doc) : Doc[i].op = kind}
TotalPages == Cardinality(At("addPage")) + 1
BodyOps == {"title", "line", "table", "row"}
BodyAt == {i \in 1..Len(Doc) : Doc[i].op \in BodyOps}

\* where the body would end were it written without a page break
Extent(cmds) ==
  LET n(kind) == Len(SelectSeq(cmds, LAMBDA c : c.cmd = kind))
  IN  n("title") * (TitleLead + TitleAdvance)
      + n("line") * LineAdvance
      + n("gap") * GapAdvance
      + n("table") * (TableLead + RowHeight)
      + n("row") * RowHeight

\* C13: the header is drawn first on page 1 and again right after every page
\* break and nowhere else, the footer is drawn once on each page
\* 1..totalPages, and a body that would run past the footer line of one page
\* gives a document of more than one page.
C13_HeaderAndFooterOnEveryPage ==
  Exported =>
    LET headers == At("header")
        footers == At("footer")
        breaks == At("addPage")
        pages == Cardinality(breaks) + 1
    IN  /\ pages = TotalPages
        /\ Doc[1].op = "header" /\ Doc[1].page = 1
        /\ \A i \in breaks :
             /\ i < Len(Doc)
             /\ Doc[i + 1].op = "header" /\ Doc[i + 1].page = Doc[i].page
        /\ \A i \in headers : i = 1 \/ Doc[i - 1].op = "addPage"
        /\ \A p \in 1..pages :
             /\ Cardinality({i \in headers : Doc[i].page = p}) = 1
             /\ Cardinality({i \in footers : Doc[i].page = p}) = 1
        /\ \A i \in footers : Doc[i].page \in 1..pages
        /\ \A i \in BodyAt : Doc[i].page \in 1..pages
        /\ TopOffset + Extent(bodyCommands(reportData)) > PageHeight - FooterOffset
             => pages > 1

\* a document of three pages, its tables broken across pages
C13_Witness ==
  /\ Exported
  /\ TotalPages >= 3
  /\ \E i \in At("row") : i > 1 /\ Doc[i - 1].op = "header"

\* the break limit of a body item
LimitOf(kind) ==
  CASE kind = "title" -> TitleLimit
    [] kind = "table" -> TableLimit
    [] kind \in {"line", "row"} -> TextLimit

\* the item at i was drawn right after a page break
AfterBreak(i) ==
  /\ i > 2
  /\ Doc[i - 1].op = "header" /\ Doc[i - 2].op = "addPage"
  /\ Doc[i].page = Doc[i - 2].page

\* C14: every text line, every table row and every table start has its own
\* check: when the cursor before it is beyond pageHeight - 20 (line, row) or
\* pageHeight - 60 (table start), a page is added, the header drawn and the
\* item drawn at 50; otherwise it is drawn at the cursor on the same page. No
\* line or row is drawn beyond pageHeight - 20 and no table starts beyond
\* pageHeight - 60.
C14_CheckBeforeEachLineAndRow ==
  Exported =>
    \A i \in {j \in BodyAt : Doc[j].op \in {"line", "row", "table"}} :
      /\ Doc[i].cursor > PageHeight - LimitOf(Doc[i].op)
           => AfterBreak(i) /\ Doc[i].y = TopOffset
      /\ Doc[i].cursor <= PageHeight - LimitOf(Doc[i].op)
           => /\ Doc[i].y = Doc[i].cursor
              /\ Doc[i - 1].op \in BodyOps => Doc[i].page = Doc[i - 1].page
              /\ ~AfterBreak(i)
      /\ Doc[i].y <= PageHeight - LimitOf(Doc[i].op)

\* a document in which a row in the middle of the vulnerabilities table met
\* the limit and opened a page, the row before it drawn with room left
C14_Witness ==
  /\ Exported
  /\ \E i \in At("row") :
       /\ Doc[i].text = "vulnerabilities"
       /\ Doc[i].cursor > PageHeight - TextLimit /\ AfterBreak(i)
       /\ Doc[i - 3].op = "row" /\ Doc[i - 3].y = Doc[i - 3].cursor

\* the section titles of the document, in the order they were drawn
DocTitles ==
  LET titles == SelectSeq(Doc, LAMBDA o : o.op = "title")
  IN  [i \in 1..Len(titles) |-> titles[i].text]

ExpectedTitles ==
  <<"Executive Summary", "Threat Overview", "Asset Status Summary">>
  \o (IF reportData.topEvents # <<>> THEN <<"Top Security Events">> ELSE <<>>)
  \o (IF reportData.vulnerabilitySummary # <<>> THEN <<"Vulnerable Assets Summary">>
      ELSE <<>>)
  \o <<"Security Recommendations", "Compliance & Performance Metrics">>

\* the title the item at i stands under
SectionOf(i) ==
  LET above == {j \in At("title") : j < i}
  IN  Doc[CHOOSE j \in above : \A k \in above : k <= j].text

\* C15: the section titles are drawn in the fixed order, Top Security Events
\* and Vulnerable Assets Summary exactly when their list is not empty, each
\* table stands under its own title, and pdf.save is the one last call, after
\* every section and every footer.
C15_SectionOrderThenSave ==
  Exported =>
    /\ DocTitles = ExpectedTitles
    /\ \A i \in At("row") \cup At("table") :
         SectionOf(i) = (CASE Doc[i].text = "threat" -> "Threat Overview"
                           [] Doc[i].text = "events" -> "Top Security Events"
                           [] Doc[i].text = "vulnerabilities" -> "Vulnerable Assets Summary")
    /\ Cardinality({i \in At("row") : Doc[i].text = "events"})
         = Min(PdfRows, Len(reportData.topEvents))
    /\ Cardinality({i \in At("row") : Doc[i].text = "vulnerabilities"})
         = Min(PdfRows, Len(reportData.vulnerabilitySummary))
    /\ At("save") = {Len(Doc)}
    /\ \A i \in BodyAt, j \in At("footer") : i < j
    /\ At("footer") # {}

\* an export with both optional sections, over three pages
C15_Witness ==
  /\ Exported
  /\ Len(DocTitles) = 7
  /\ TotalPages >= 3
  /\ Cardinality(At("footer")) >= 3

\* the message names events: it contains event, alert or incident, in any case
AsksAboutEvents(m) ==
  \/ includes(toLowerCase(m), <<"e", "v", "e", "n", "t">>)
  \/ includes(toLowerCase(m), <<"a", "l", "e", "r", "t">>)
  \/ includes(toLowerCase(m), <<"i", "n", "c", "i", "d", "e", "n", "t">>)

\* C16: a rule-based reply to a message containing event, alert or incident
\* (in any case) reports the number of events supplied and the number of
\* those of severity critical or high.
C16_EventsKeywordsGiveCounts ==
  \A k \in DOMAIN exchanges :
    (exchanges[k].remote \in RemoteFailures /\ AsksAboutEvents(exchanges[k].message)) =>
      /\ exchanges[k].reply.text = "fallback-events"
      /\ exchanges[k].reply.total = Len(chatEvents(exchanges[k].clientId))
      /\ exchanges[k].reply.attention =
           Cardinality({i \in DOMAIN chatEvents(exchanges[k].clientId) :
                          chatEvents(exchanges[k].clientId)[i].severity
                            \in {"critical", "high"}})

\* the classification as stated: alert name and event type are searched for
\* the same words
StatedClassification(event) ==
  LET severity == IF event.severity = Null THEN "" ELSE severityToLowerCase(event.severity)
      alertName == lowerOrEmpty(event.alert_name)
      eventType == lowerOrEmpty(event.event_type)
      Either(word) == includes(alertName, word) \/ includes(eventType, word)
  IN  IF severity = "critical" \/ severity = "high"
      THEN IF Either(<<"m", "a", "l", "w", "a", "r", "e">>)
           THEN "True Positive - Malware Detection"
           ELSE IF Either(<<"i", "n", "t", "r", "u", "s", "i", "o", "n">>) \/ Either(<<"a", "t", "t", "a", "c", "k">>)
           THEN "True Positive - Intrusion Attempt"
           ELSE "True Positive - Security Threat"
      ELSE IF severity = "low" \/ severity = "info"
      THEN "True Negative - Normal Activity"
      ELSE "Requires Investigation"

\* C17: every classification answer names the most recent event of the client
\* and gives it the class stated for its severity, alert name and event type:
\* critical or high with 'malware' in alert name or event type is Malware
\* Detection, else with 'intrusion' or 'attack' in alert name or event type
\* Intrusion Attempt, else Security Threat; low or info is Normal Activity;
\* any other severity Requires Investigation
C17_ClassificationAsStated ==
  \A i \in 1..Len(exchanges) :
    exchanges[i].reply.text = "rules-classification" =>
      LET latest == ruleEvents(exchanges[i].clientId)[1]
      IN  /\ exchanges[i].reply.event = latest.event_id
          /\ exchanges[i].reply.classification = StatedClassification(latest)

\* the exchanges the function answered
Answered == {i \in 1..Len(exchanges) : ~exchanges[i].toast}

\* the list the report would show for the rows of a client
OnScreenRecommendations(c) ==
  recommendations(threatOverview(store.logs[c]), store.assets[c])

\* a message with a recommendation keyword and no keyword of an earlier rule
AsksOnlyForRecommendations(m) ==
  /\ recommendGroup(toLowerCase(m))
  /\ ~eventsGroup(toLowerCase(m))
  /\ ~assetsGroup(toLowerCase(m))
  /\ ~classifyGroup(toLowerCase(m))

\* C18 as stated: every answered message containing 'recommend', 'suggest' or
\* 'advice' gets the recommendation list, of at most 5 entries
C18_AnyRecommendKeyword ==
  \A i \in Answered :
    recommendGroup(toLowerCase(exchanges[i].message)) =>
      /\ exchanges[i].reply.text = "rules-recommendations"
      /\ Len(exchanges[i].reply.items) <= RecommendationCap

\* C18: the recommendation helper returns at most 5 entries for the rows of
\* every client, the first 5 of the list it builds, and an answered message
\* with 'recommend', 'suggest' or 'advice' and no keyword of the event, asset
\* or classification rules gets exactly that list
C18_CappedRecommendations ==
  /\ \A c \in Clients :
       LET capped == generateRecommendations(ruleEvents(c), ruleAssets(c))
           whole == generateRecommendationsUncapped(ruleEvents(c), ruleAssets(c))
       IN  /\ Len(capped) <= RecommendationCap
           /\ capped = SubSeq(whole, 1, Min(RecommendationCap, Len(whole)))
  /\ \A i \in Answered :
       AsksOnlyForRecommendations(exchanges[i].message) =>
         /\ exchanges[i].reply.text = "rules-recommendations"
         /\ exchanges[i].reply.items =
              generateRecommendations(ruleEvents(exchanges[i].clientId),
                                      ruleAssets(exchanges[i].clientId))
         /\ Len(exchanges[i].reply.items) <= RecommendationCap

\* a request for advice answered with 5 of the 7 entries built, for rows whose
\* on-screen list has more than 5
C18_Witness ==
  \E i \in Answered :
    /\ AsksOnlyForRecommendations(exchanges[i].message)
    /\ Len(exchanges[i].reply.items) = RecommendationCap
    /\ Len(generateRecommendationsUncapped(ruleEvents(exchanges[i].clientId),
                                           ruleAssets(exchanges[i].clientId))) = 7
    /\ Len(OnScreenRecommendations(exchanges[i].clientId)) > RecommendationCap

\* the conversation as it was when the request in flight was sent
PriorMessages == SubSeq(messages, 1, Len(messages) - 1)

\* C19: a completions request is one system message, then the last 10 or
\* fewer messages the conversation had before the send, in their order, then
\* the new user message, which is not among the turns before it
C19_RequestShape ==
  "request" \in DOMAIN chat =>
    LET req == chat.request
        n == Min(HistoryLimit, Len(PriorMessages))
    IN  /\ Len(req) = n + 2
        /\ req[1].role = "system"
        /\ \A j \in 2..Len(req) : req[j].role # "system"
        /\ req[Len(req)] = [role |-> "user", content |-> chat.message]
        /\ messages[Len(messages)] = [sender |-> "user", content |-> chat.message]
        /\ \A j \in 1..n :
             /\ req[1 + j].content = PriorMessages[Len(PriorMessages) - n + j].content
             /\ req[1 + j].role =
                  IF PriorMessages[Len(PriorMessages) - n + j].sender = "user"
                  THEN "user" ELSE "assistant"

\* a request sent after more than 10 messages: the greeting is no longer in
\* it, an error text is
C19_Witness ==
  /\ chat.phase = "remote"
  /\ Len(PriorMessages) > HistoryLimit
  /\ Len(chat.request) = HistoryLimit + 2
  /\ chat.request[2].role = "user"
  /\ \E j \in 2..(HistoryLimit + 1) : chat.request[j].content = [text |-> "ui-error"]

\* the list is the greeting, then for every settled exchange the user message
\* and its answer, then the user message of the request in flight, if any
InResponseOrder ==
  /\ Len(messages) = 1 + 2 * Len(exchanges) + (IF chat.phase = "idle" THEN 0 ELSE 1)
  /\ messages[1] = Greeting
  /\ \A k \in 1..Len(exchanges) :
       /\ messages[2 * k] = [sender |-> "user", content |-> exchanges[k].message]
       /\ messages[2 * k + 1] = [sender |-> "ai", content |-> exchanges[k].reply]
  /\ chat.phase # "idle" =>
       messages[Len(messages)] = [sender |-> "user", content |-> chat.message]

\* C20: every step leaves the list as it is or appends one message to it: an
\* accepted send the user message, the end of the request one assistant
\* message, the reply or the error text, right after the user message it
\* answers; nothing is removed or moved
C20_AppendOnlyInResponseOrder ==
  [][/\ Len(messages') \in {Len(messages), Len(messages) + 1}
     /\ SubSeq(messages', 1, Len(messages)) = messages
     /\ Len(messages') = Len(messages) + 1 =>
          LET new == messages'[Len(messages')]
          IN  IF chat.phase = "idle"
              THEN /\ chat'.phase = "invoked"
                   /\ new = [sender |-> "user", content |-> chat'.message]
              ELSE /\ chat.phase = "responded" /\ chat'.phase = "idle"
                   /\ new.sender = "ai"
                   /\ new.content = IF chat.response.status = 200
                                     THEN chat.response.response
                                     ELSE [text |-> "ui-error"]
                   /\ messages[Len(messages)] = [sender |-> "user", content |-> chat.message]
     /\ chat.phase # chat'.phase /\ "idle" \in {chat.phase, chat'.phase} =>
          Len(messages') = Len(messages) + 1
     /\ InResponseOrder']_vars

\* two exchanges, the first ended with the error text, the second with a reply
C20_Witness ==
  /\ chat.phase = "idle"
  /\ Len(exchanges) = 2
  /\ Len(messages) = 5
  /\ messages[3].content = [text |-> "ui-error"]
  /\ messages[5].content # [text |-> "ui-error"]
  /\ InResponseOrder

\* the security context of the request in flight and the rows it is made of
ContextSent == chat.request[1].content.securityContext
RowsOfEvents == chatEvents(chat.clientId)
RowsOfAssets == chatAssets(chat.clientId)
CalloutTexts(ctx) == {ctx.assets.callouts[i].text : i \in 1..Len(ctx.assets.callouts)}

\* C21: the security context of a request lists the first 5 or fewer events
\* of the descending list and the first 5 or fewer assets, gives the number
\* of events and of critical or high ones, has the high-risk callout exactly
\* when an asset has a non-empty vulnerability list and the offline callout
\* exactly when an asset is offline, and says that none exist when there is
\* no event, and when there is no asset
C21_SecurityContext ==
  "request" \in DOMAIN chat =>
    LET evs == RowsOfEvents
        ast == RowsOfAssets
        ctx == ContextSent
        rows == store.logs[chat.clientId]
    IN  /\ IF evs = <<>>
           THEN ctx.events = [text |-> "No recent security events detected."]
           ELSE /\ ctx.events.total = Len(evs)
                /\ ctx.events.urgent =
                     Cardinality({i \in 1..Len(evs) :
                                    evs[i].severity \in {"critical", "high"}})
                /\ Len(ctx.events.items) = Min(5, Len(evs))
                /\ \A i \in 1..Len(ctx.events.items) :
                     /\ ctx.events.items[i].event = evs[i].event_id
                     /\ \A j \in 1..Len(rows) :
                          \/ \E k \in 1..i :
                               ctx.events.items[k].event
                                 = rows[j].event_id
                          \/ rows[j].timestamp
                               <= ctx.events.items[i].time
        /\ IF ast = <<>>
           THEN ctx.assets = [text |-> "No assets currently registered for monitoring."]
           ELSE /\ ctx.assets.total = Len(ast)
                /\ Len(ctx.assets.items) = Min(5, Len(ast))
                /\ \A i \in 1..Len(ctx.assets.items) :
                     ctx.assets.items[i].name = ast[i].name
                /\ "High Risk Assets" \in CalloutTexts(ctx)
                     <=> \E i \in 1..Len(ast) :
                           /\ ast[i].vulnerabilities.isArray
                           /\ ast[i].vulnerabilities.items # <<>>
                /\ "Offline Assets" \in CalloutTexts(ctx)
                     <=> \E i \in 1..Len(ast) : ast[i].status = "offline"
                /\ CalloutTexts(ctx) \subseteq {"High Risk Assets", "Offline Assets"}

\* a request for a client with more than 20 events and more than 5 assets:
\* 5 of each are listed, and both callouts are there for an asset not listed
C21_Witness ==
  /\ chat.phase = "remote"
  /\ Len(store.logs[chat.clientId]) > ChatEventLimit
  /\ ContextSent.events.total = ChatEventLimit
  /\ Len(ContextSent.events.items) = 5
  /\ ContextSent.assets.total > 5
  /\ Len(ContextSent.assets.items) = 5
  /\ CalloutTexts(ContextSent) = {"High Risk Assets", "Offline Assets"}
  /\ \A i \in 1..5 : RowsOfAssets[i].status # "offline"

\* the answers of each keyword rule, of either responder
EventsAnswers == {"rules-events", "rules-no-events", "fallback-events"}
AssetsAnswers == {"rules-assets", "rules-no-assets", "fallback-assets"}
ClassifyAnswers == {"rules-classification", "rules-nothing-to-classify"}
RecommendAnswers == {"rules-recommendations"}
MenuAnswers == {"rules-menu", "fallback-menu"}
RuleAnswers ==
  EventsAnswers \cup AssetsAnswers \cup ClassifyAnswers \cup RecommendAnswers
  \cup MenuAnswers

\* C22: an answer made by keyword rules is that of the first group, in the
\* order events, assets, classification, recommendations, of which the
\* message has a keyword, and it is the default text only when the message
\* has no keyword of any group
C22_FirstGroupWins ==
  \A i \in 1..Len(exchanges) :
    exchanges[i].reply.text \in RuleAnswers =>
      LET lowerMessage == toLowerCase(exchanges[i].message)
          answer == exchanges[i].reply.text
      IN  /\ eventsGroup(lowerMessage) => answer \in EventsAnswers
          /\ ~eventsGroup(lowerMessage) /\ assetsGroup(lowerMessage)
               => answer \in AssetsAnswers
          /\ ~eventsGroup(lowerMessage) /\ ~assetsGroup(lowerMessage)
             /\ classifyGroup(lowerMessage)
               => answer \in ClassifyAnswers
          /\ ~eventsGroup(lowerMessage) /\ ~assetsGroup(lowerMessage)
             /\ ~classifyGroup(lowerMessage) /\ recommendGroup(lowerMessage)
               => answer \in RecommendAnswers
          /\ answer \in MenuAnswers
               => /\ ~eventsGroup(lowerMessage) /\ ~assetsGroup(lowerMessage)
                  /\ ~classifyGroup(lowerMessage) /\ ~recommendGroup(lowerMessage)

\* C23: the loading flag is set exactly while a request is in flight: it is
\* false before the first send and after every answer, reply or error text,
\* a send is accepted only while it is false, and so no send is accepted
\* while another request is in flight
C23_LoadingFlag ==
  /\ [](isLoading <=> chat.phase # "idle")
  /\ [][/\ Len(messages') > Len(messages) /\ messages'[Len(messages')].sender = "user"
           => ~isLoading /\ chat.phase = "idle" /\ isLoading'
        /\ Len(exchanges') > Len(exchanges)
           => isLoading /\ ~isLoading' /\ chat'.phase = "idle"
        /\ isLoading /\ isLoading' => messages' = messages]_vars

\* a second send accepted after a send that ended with the error text
C23_Witness ==
  /\ isLoading
  /\ chat.phase = "invoked"
  /\ Len(exchanges) = 1
  /\ exchanges[1].toast

\* C24: the conversation has one id per message, the greeting's is 1, and no
\* two messages have the same id
C24_UniqueIds ==
  /\ Len(messageIds) = Len(messages)
  /\ messageIds[1] = 1
  /\ \A i, j \in 1..Len(messageIds) : i # j => messageIds[i] # messageIds[j]

\* the calls of listeners a step adds, and the listeners subscribed
NewCalls == SubSeq(delivered', Len(delivered) + 1, Len(delivered'))
Subscribed(ls) == {ls[i] : i \in 1..Len(ls)}
StatePublished == authPhase' # authPhase \/ changes' # changes

\* C25: a subscription calls the new listener, and nobody else, with the
\* current state; a state update calls every listener subscribed at that
\* moment, once each and in subscription order, with the new state; nothing
\* else calls a listener, so a listener that unsubscribed is not called
\* again; and an unsubscription takes that one listener off the list and
\* leaves the others where they were
C25_SubscriptionProtocol ==
  /\ [](\A i, j \in 1..Len(listeners) : i # j => listeners[i] # listeners[j])
  /\ [][/\ Len(listeners') > Len(listeners)
           => /\ \E c \in Components :
                   /\ hooks[c].stage = "rendered"
                   /\ listeners' = Append(listeners, hooks[c].listener)
                   /\ NewCalls = <<[listener |-> hooks[c].listener,
                                    state |-> currentState]>>
              /\ currentState' = currentState
        /\ StatePublished
           => /\ Len(NewCalls) = Len(listeners)
              /\ \A i \in 1..Len(listeners) :
                   NewCalls[i] = [listener |-> listeners[i], state |-> currentState']
              /\ listeners' = listeners
        /\ Len(listeners') <= Len(listeners) /\ ~StatePublished => NewCalls = <<>>
        /\ Len(delivered') >= Len(delivered)
        /\ SubSeq(delivered', 1, Len(delivered)) = delivered
        /\ \A i \in 1..Len(NewCalls) : NewCalls[i].listener \in Subscribed(listeners')
        /\ Len(listeners') < Len(listeners)
           => \E c \in Components, k \in 1..Len(listeners) :
                /\ hooks[c].stage = "subscribed"
                /\ hooks'[c].stage = "unmounted"
                /\ listeners[k] = hooks[c].listener
                /\ listeners' = SubSeq(listeners, 1, k - 1)
                                   \o SubSeq(listeners, k + 1, Len(listeners))
        /\ \A c \in Components :
             hooks[c].stage = "unmounted" /\ hooks'[c].stage = "unmounted"
               => hooks[c].listener \notin Subscribed(listeners')]_vars

\* two listeners subscribed and called with a new state in their order, the
\* first of them unsubscribed, and then another state published: the one
\* that stayed was called with it and the other was not
C25_Witness ==
  /\ Len(listeners) = 1
  /\ changes > 0
  /\ Len(delivered) > 4
  /\ delivered[Len(delivered)] = [listener |-> listeners[1], state |-> currentState]
  /\ delivered[Len(delivered) - 1].state # currentState
  /\ \E c \in Components :
       /\ hooks[c].stage = "unmounted"
       /\ delivered[1].listener = hooks[c].listener
       /\ \E i \in 3..(Len(delivered) - 1) :
            /\ delivered[i - 1].listener = hooks[c].listener
            /\ delivered[i].listener = listeners[1]
            /\ delivered[i - 1].state = delivered[i].state
            /\ delivered[i].state # delivered[1].state

\* user is non-null exactly when the session has a user
UserMatchesSession(st) ==
  st.user.present <=> (st.session.present /\ st.session.user.present)

\* C26: until initializeAuth has published, the state is the one of the
\* construction, loading with no user and no session; its success path and
\* its failure path both publish a state that is not loading; loading never
\* becomes true again; and every state published from then on, the one held
\* and the ones the listeners were called with, has a user exactly when its
\* session has one
C26_LoadingAndUser ==
  /\ [](authPhase = "starting"
          => currentState = [user |-> NoUser, session |-> NoSession, loading |-> TRUE])
  /\ [](authPhase # "starting"
          => ~currentState.loading /\ UserMatchesSession(currentState))
  /\ [](\A i \in 1..Len(delivered) :
          ~delivered[i].state.loading => UserMatchesSession(delivered[i].state))
  /\ [][/\ authPhase = "starting" /\ authPhase' # "starting"
           => currentState.loading /\ ~currentState'.loading
        /\ ~currentState.loading => ~currentState'.loading
        /\ authPhase # "starting" => authPhase' = authPhase]_vars

\* after the success path, a change to a session that has no user: the state
\* published to a listener has the session, no user, and is not loading
C26_Witness ==
  /\ authPhase = "listening"
  /\ changes > 0
  /\ currentState.session.present
  /\ ~currentState.user.present
  /\ ~currentState.loading
  /\ Len(delivered) > 1
  /\ delivered[1].state.loading
  /\ delivered[Len(delivered)].state = currentState
  /\ delivered[Len(delivered) - 1].state.user.present

\* C27: on the state its hook holds, the protected route renders its
\* children only when that state is not loading and has a user, renders the
\* spinner, so neither the children nor a redirect, while it is loading, and
\* redirects to /login when it is not loading and has no user; the login page
\* redirects to / whenever the state has a user; and the state a subscribed
\* hook holds is the state of the service
C27_RouteGating ==
  /\ OnScreen("route") =>
       /\ render("route") = "children"
            => ~hooks["route"].authState.loading /\ hooks["route"].authState.user.present
       /\ hooks["route"].authState.loading => render("route") = "spinner"
       /\ ~hooks["route"].authState.loading /\ ~hooks["route"].authState.user.present
            => render("route") = "redirect-login"
  /\ OnScreen("login") =>
       (hooks["login"].authState.user.present => render("login") = "redirect-home")
  /\ \A c \in Components :
       hooks[c].stage = "subscribed" => hooks[c].authState = currentState

\* the login page, loading while the service was starting, got a state with
\* a user, redirected to / and went; the route mounted after it renders the
\* children
C27_Witness ==
  /\ hooks["login"].stage = "unmounted"
  /\ \E i \in 1..Len(delivered) :
       delivered[i].listener = hooks["login"].listener /\ delivered[i].state.loading
  /\ loginRender(hooks["login"].authState) = "redirect-home"
  /\ hooks["route"].stage = "subscribed"
  /\ currentState.user.present
  /\ render("route") = "children"

\* the submission whose timer fires in a step
Fired == CHOOSE sub \in submissions : sub \notin submissions'

\* C28: the flag is true exactly when the stored key is the expected key; a
\* blank key gets the error and starts nothing; a timer that fires for any
\* key but the expected one leaves the flag and the stored key as they are
\* and sets the error, and one that fires for the expected key stores it and
\* sets the flag; a disconnect clears both; and the validating flag is true
\* only while the submission of the component on screen waits for its timer,
\* and it is false again after it was set
C28_FlagMatchesStoredKey ==
  /\ [](apiKeyConfigured <=> localStorage = Present(ExpectedKey))
  /\ [](isValidating <=> \E sub \in submissions : sub.instance = tabInstance)
  /\ [](\A sub \in submissions : trim(sub.key) # <<>>)
  /\ [][/\ validationError # EnterKey /\ validationError' = EnterKey
           => /\ trim(apiKey) = <<>>
              /\ UNCHANGED <<localStorage, apiKeyConfigured, isValidating, submissions>>
        /\ submissions' # submissions /\ submissions' \subseteq submissions
           => /\ IF Fired.key = ExpectedKey
                 THEN localStorage' = Present(ExpectedKey) /\ apiKeyConfigured'
                 ELSE /\ UNCHANGED <<localStorage, apiKeyConfigured>>
                      /\ Fired.instance = tabInstance => validationError' = InvalidKey
              /\ Fired.instance = tabInstance => isValidating /\ ~isValidating'
        /\ apiKeyConfigured /\ ~apiKeyConfigured' => localStorage' = Absent
        /\ localStorage' # localStorage
           => localStorage' = Absent \/ localStorage' = Present(ExpectedKey)]_vars
  /\ (isValidating ~> ~isValidating)

\* in a session that began with another key stored: a wrong key was refused
\* with the error, the expected key with a blank after it is waiting, and
\* the stored key is still the one of the beginning
C28_Witness ==
  /\ localStorage = Present(<<"b", "a", "d">>)
  /\ ~apiKeyConfigured
  /\ isValidating
  /\ submissions = {[instance |-> 1, key |-> ExpectedKey \o <<" ">>]}
  /\ tabInstance = 1

\* the body items of the document: titles, lines, table headers, rows
BodyItems == {i \in 1..Len(Doc) : Doc[i].op \in {"title", "line", "table", "row"}}

\* C29: in the document, every line is drawn at y <= pageHeight - 20, every
\* section title at y <= pageHeight - 40, every table header band starts at
\* y <= pageHeight - 60, every row band starts at y <= pageHeight - 20 and so
\* ends at pageHeight - 12 or above, which is above the footer's baseline at
\* pageHeight - 10, and every body item is at y >= 50, below the header
\* band, which is 40 high
C29_BodyClearOfHeaderAndFooter ==
  exportLog.ran /\ exportLog.serializerCalled =>
    LET items == BodyItems
        lowest == PageHeight - TextLimit
    IN  /\ \A i \in items :
             /\ Doc[i].y >= TopOffset
             /\ Doc[i].y > HeaderHeight
             /\ Doc[i].op = "line" => Doc[i].y <= lowest
             /\ Doc[i].op = "title" => Doc[i].y <= PageHeight - TitleLimit
             /\ Doc[i].op = "table" => Doc[i].y <= PageHeight - TableLimit
             /\ Doc[i].op = "row"
                  => /\ Doc[i].y <= lowest
                     /\ Doc[i].y + RowHeight <= PageHeight - 12
                     /\ Doc[i].y + RowHeight < PageHeight - FooterOffset
        /\ TopOffset = 50 /\ lowest = PageHeight - 20 /\ TitleLimit = 40 /\ TableLimit = 60

\* a document with a row band so low that the next band would pass the
\* limit, the next row at the top of a new page, and a title moved to the
\* top of a page
C29_Witness ==
  /\ exportLog.ran
  /\ exportLog.serializerCalled
  /\ \E i \in BodyItems :
       /\ Doc[i].op = "row"
       /\ Doc[i].y + RowHeight > PageHeight - TextLimit
       /\ \E j \in BodyItems :
            /\ j > i
            /\ Doc[j].op = "row"
            /\ Doc[j].y = TopOffset
            /\ Doc[j].page = Doc[i].page + 1
  /\ \E i \in BodyItems : Doc[i].op = "title" /\ Doc[i].y = TopOffset /\ Doc[i].page > 1

\* the rows of the open client, the ids of the events the report was given,
\* and the events given that lie in the window
ClientRows == store.logs[selectedClient]
GivenIds == {logs[i].event_id : i \in 1..Len(logs)}
GivenInWindow ==
  {i \in 1..Len(logs) :
     dateRange.from <= logs[i].timestamp /\ logs[i].timestamp <= dateRange.to}
RowsInWindow ==
  {i \in 1..Len(ClientRows) :
     dateRange.from <= ClientRows[i].timestamp /\ ClientRows[i].timestamp <= dateRange.to}

\* C30: the events a report is made of are the 10 most recent rows of the
\* open client, or all of them when there are fewer: its eventsProcessed and
\* totalEvents are 10 or less, its counts are those of the given events in
\* the window and its top events are among them, so a row older than the 10
\* most recent adds to no figure, in the window or not
C30_ReportOfTenMostRecent ==
  Mounted /\ logsQuery.status = "success" /\ HasReport =>
    LET rows == ClientRows
        given == GivenIds
        counted == GivenInWindow
    IN  /\ Len(logs) = Min(SelectLimit, Len(rows))
        /\ \A i \in 1..Len(logs) : \E j \in 1..Len(rows) : rows[j] = logs[i]
        /\ \A j \in 1..Len(rows) :
             rows[j].event_id \notin given
               => \A i \in 1..Len(logs) : rows[j].timestamp <= logs[i].timestamp
        /\ reportData.complianceMetrics.eventsProcessed = Cardinality(counted)
        /\ reportData.complianceMetrics.eventsProcessed <= SelectLimit
        /\ reportData.executiveSummary.totalEvents <= SelectLimit
        /\ reportData.executiveSummary.totalEvents
             = Cardinality({i \in counted : logs[i].severity \in Recognized})
        /\ reportData.executiveSummary.criticalAlerts
             = Cardinality({i \in counted : logs[i].severity = "critical"})
        /\ reportData.executiveSummary.highAlerts
             = Cardinality({i \in counted : logs[i].severity = "high"})
        /\ \A k \in 1..Len(reportData.topEvents) :
             reportData.topEvents[k].id \in given

\* a client with 12 rows, all in the window, the two oldest critical: the
\* report counts 10 events and one critical alert
C30_Witness ==
  /\ Mounted
  /\ logsQuery.status = "success"
  /\ HasReport
  /\ Len(ClientRows) > SelectLimit
  /\ Cardinality(RowsInWindow) > SelectLimit
  /\ reportData.complianceMetrics.eventsProcessed = SelectLimit
  /\ Cardinality({i \in RowsInWindow : ClientRows[i].severity = "critical"}) = 3
  /\ reportData.executiveSummary.criticalAlerts = 1

====
